---- MODULE Spec2Model ----
(***************************************************************************)
(* School / Classroom / Student managers of the school management API.    *)
(* The document store is three collections; every manager method is one   *)
(* atomic action (a request run to completion).  Ids are the positions in *)
(* the collections, 0 stands for an absent / null / empty id.             *)
(***************************************************************************)
EXTENDS Integers, Sequences, FiniteSets, TLC

VARIABLES schools, classrooms, students, last, pending, users, req

vars == <<schools, classrooms, students, last, pending, users, req>>

----------------------------------------------------------------------------
(* Bounds of the model *)

MaxSchools == 2
MaxClassrooms == 2
MaxStudents == 2
MaxTransfers == 1

----------------------------------------------------------------------------
(* Values *)

NoId == 0
Undef == -1
Unset == "undefined"
Ok == "ok"
Thrown == "thrown"
NoName == ""
NoYear == ""
NoReason == ""

NoToken == [role |-> "null", schoolId |-> NoId]
Superadmin == [role |-> "superadmin", schoolId |-> NoId]
SchoolAdmin(s) == [role |-> "school_admin", schoolId |-> s]

MinCapacity == 1
MaxCapacity == 500

NoError == [error |-> Ok, code |-> 0]
Err(e, c) == [error |-> e, code |-> c]

\* an HTTP request as the middlewares read it: the token decoded by the
\* previous middleware, the __token of the body, the schoolId of the params,
\* of the body and of the query, and the roles of the route (meta.roles)
Request(decoded, bodyToken, paramsSchoolId, bodySchoolId, querySchoolId, roles) ==
    [decoded |-> decoded,
     params |-> [schoolId |-> paramsSchoolId],
     body |-> [schoolId |-> bodySchoolId, __token |-> bodyToken],
     query |-> [schoolId |-> querySchoolId],
     roles |-> roles]

NoRequest == Request(NoToken, NoToken, NoId, NoId, NoId, <<>>)

----------------------------------------------------------------------------
(* Document store queries *)

Exists(coll, id) == id \in 1..Len(coll)

\* student.countDocuments({ classroomId, isActive: true })
CountActiveStudents(studs, classroomId) ==
    Cardinality({i \in 1..Len(studs) :
                    studs[i].classroomId = classroomId /\ studs[i].isActive})

\* the count without the isActive filter
CountSchoolStudentsEver(studs, schoolId) ==
    Cardinality({i \in 1..Len(studs) : studs[i].schoolId = schoolId})

\* student.countDocuments({ schoolId, isActive: true })
CountSchoolStudents(studs, schoolId) ==
    Cardinality({i \in 1..Len(studs) :
                    studs[i].schoolId = schoolId /\ studs[i].isActive})

\* classroom.countDocuments({ schoolId, isActive: true })
CountSchoolClassrooms(rooms, schoolId) ==
    Cardinality({i \in 1..Len(rooms) :
                    rooms[i].schoolId = schoolId /\ rooms[i].isActive})

\* the characters of the names the model uses
Chars(s) ==
    CASE s = "lincoln" -> <<"l", "i", "n", "c", "o", "l", "n">>
      [] s = "LINCOLN" -> <<"L", "I", "N", "C", "O", "L", "N">>
      [] s = "kennedy" -> <<"k", "e", "n", "n", "e", "d", "y">>
      [] s = "hill(n)" -> <<"h", "i", "l", "l", "(", "n", ")">>
      [] s = "room" -> <<"r", "o", "o", "m">>
      [] s = "ROOM" -> <<"R", "O", "O", "M">>
      [] s = "lab" -> <<"l", "a", "b">>
      [] s = "lab(b)" -> <<"l", "a", "b", "(", "b", ")">>
      [] s = "LAB(B)" -> <<"L", "A", "B", "(", "B", ")">>
      [] OTHER -> <<s>>

\* the case folding of the 'i' flag
LowerChar(c) ==
    CASE c = "L" -> "l" [] c = "I" -> "i" [] c = "N" -> "n" [] c = "C" -> "c"
      [] c = "O" -> "o" [] c = "R" -> "r" [] c = "M" -> "m" [] c = "A" -> "a"
      [] c = "B" -> "b"
      [] OTHER -> c

\* the items a pattern consumes: ( and ) open and close a group and
\* consume nothing
PatternItems(pattern) ==
    SelectSeq(pattern, LAMBDA c : c \notin {"(", ")"})

\* new RegExp(`^${name}$`, 'i').test(s): the name is used as the pattern
\* text, unescaped
RegexMatchI(name, s) ==
    LET items == PatternItems(Chars(name))
        text == Chars(s)
    IN
    /\ Len(items) = Len(text)
    /\ \A i \in 1..Len(items) : LowerChar(items[i]) = LowerChar(text[i])

----------------------------------------------------------------------------
(* The response to the last request: the method called, the returned     *)
(* error / code (Ok when the success payload is returned) and the counts *)
(* an error object carries.                                              *)

Res(op, r) ==
    [op |-> op, error |-> r.error, code |-> r.code,
     activeClassrooms |-> 0, activeStudents |-> 0]

----------------------------------------------------------------------------
(* School manager *)

\* the role test lets a school_admin through
School_checkSuperadminAccessLax(token) ==
    IF token = NoToken THEN Err("Authentication required", 401)
    ELSE IF token.role \notin {"superadmin", "school_admin"}
         THEN Err("Access denied. Only superadmins can manage schools.", 403)
         ELSE NoError

School_checkSuperadminAccess(token) ==
    IF token = NoToken THEN Err("Authentication required", 401)
    ELSE IF token.role # "superadmin"
         THEN Err("Access denied. Only superadmins can manage schools.", 403)
         ELSE NoError

\* school.findOne({ _id: {$ne: exceptId}, name: /^name$/i, isActive: true })
SchoolNameTaken(name, exceptId) ==
    \E i \in 1..Len(schools) :
        /\ i # exceptId
        /\ schools[i].isActive
        /\ RegexMatchI(name, schools[i].name)

createSchoolResult(token, name) ==
    LET auth == School_checkSuperadminAccess(token) IN
    IF auth # NoError THEN auth
    ELSE IF name = NoName THEN Err("validation errors", 0)
    ELSE IF SchoolNameTaken(name, NoId)
         THEN Err("A school with this name already exists", 0)
    ELSE NoError

createSchoolAfter(token, name) ==
    IF createSchoolResult(token, name) = NoError
    THEN Append(schools, [name |-> name, isActive |-> TRUE])
    ELSE schools

createSchool(token, name) ==
    /\ Len(schools) < MaxSchools
    /\ schools' = createSchoolAfter(token, name)
    /\ last' = Res("createSchool", createSchoolResult(token, name))
    /\ UNCHANGED <<classrooms, students, pending, users, req>>

getSchoolsResult(token) == School_checkSuperadminAccess(token)

\* school.find(query): the ids the query matches; isActive filters when it
\* is defined
getSchoolsFound(token, isActive) ==
    IF getSchoolsResult(token) # NoError THEN {}
    ELSE {i \in 1..Len(schools) :
            isActive # Undef => schools[i].isActive = (isActive = 1)}

getSchools(token, isActive) ==
    /\ last' = Res("getSchools", getSchoolsResult(token))
    /\ UNCHANGED <<schools, classrooms, students, pending, users, req>>

getSchoolResult(token, schoolId) ==
    LET auth == School_checkSuperadminAccess(token) IN
    IF auth # NoError THEN auth
    ELSE IF schoolId = NoId THEN Err("School ID is required", 0)
    ELSE IF ~Exists(schools, schoolId) THEN Err("School not found", 0)
    ELSE NoError

getSchool(token, schoolId) ==
    /\ last' = Res("getSchool", getSchoolResult(token, schoolId))
    /\ UNCHANGED <<schools, classrooms, students, pending, users, req>>

updateSchoolResult(token, schoolId, name) ==
    LET auth == School_checkSuperadminAccess(token) IN
    IF auth # NoError THEN auth
    ELSE IF schoolId = NoId THEN Err("School ID is required", 0)
    ELSE IF ~Exists(schools, schoolId) THEN Err("School not found", 0)
    ELSE IF /\ name # Unset
            /\ name # NoName
            /\ name # schools[schoolId].name
            /\ SchoolNameTaken(name, schoolId)
         THEN Err("A school with this name already exists", 0)
    \* school.save() validates the schema: name is required
    ELSE IF name = NoName THEN Err(Thrown, 0)
    ELSE NoError

updateSchoolAfter(token, schoolId, name, isActive) ==
    IF updateSchoolResult(token, schoolId, name) = NoError
    THEN [schools EXCEPT ![schoolId] =
             [name |-> IF name # Unset THEN name ELSE @.name,
              isActive |-> IF isActive # Undef THEN isActive = 1 ELSE @.isActive]]
    ELSE schools

updateSchool(token, schoolId, name, isActive) ==
    /\ schools' = updateSchoolAfter(token, schoolId, name, isActive)
    /\ last' = Res("updateSchool", updateSchoolResult(token, schoolId, name))
    /\ UNCHANGED <<classrooms, students, pending, users, req>>

HasActiveChildren ==
    "Cannot delete school with active classrooms or students. Please deactivate or transfer them first."

deleteSchoolResult(token, schoolId) ==
    LET auth == School_checkSuperadminAccess(token) IN
    IF auth # NoError THEN auth
    ELSE IF schoolId = NoId THEN Err("School ID is required", 0)
    ELSE IF ~Exists(schools, schoolId) THEN Err("School not found", 0)
    ELSE IF ~schools[schoolId].isActive
         THEN Err("School is already inactive", 0)
    ELSE IF \/ CountSchoolClassrooms(classrooms, schoolId) > 0
            \/ CountSchoolStudents(students, schoolId) > 0
         THEN Err(HasActiveChildren, 0)
    ELSE NoError

\* the whole object deleteSchool returns
deleteSchoolResponse(token, schoolId) ==
    LET r == deleteSchoolResult(token, schoolId) IN
    IF r.error = HasActiveChildren
    THEN [Res("deleteSchool", r) EXCEPT
             !.activeClassrooms = CountSchoolClassrooms(classrooms, schoolId),
             !.activeStudents = CountSchoolStudents(students, schoolId)]
    ELSE Res("deleteSchool", r)

deleteSchoolAfter(token, schoolId) ==
    IF deleteSchoolResult(token, schoolId) = NoError
    THEN [schools EXCEPT ![schoolId].isActive = FALSE]
    ELSE schools

deleteSchool(token, schoolId) ==
    /\ schools' = deleteSchoolAfter(token, schoolId)
    /\ last' = deleteSchoolResponse(token, schoolId)
    /\ UNCHANGED <<classrooms, students, pending, users, req>>

----------------------------------------------------------------------------
(* Classroom manager *)

Classroom_checkSchoolAccess(token, schoolId) ==
    IF token = NoToken THEN Err("Authentication required", 401)
    ELSE IF token.role = "superadmin" THEN NoError
    ELSE IF token.role = "school_admin"
         THEN IF schoolId = NoId THEN NoError
              ELSE IF token.schoolId # schoolId
                   THEN Err("Access denied. You can only access your assigned school.", 403)
                   ELSE NoError
    ELSE Err("Access denied.", 403)

\* the requested school is used for every role
Classroom_getEffectiveSchoolIdRequested(token, requestedSchoolId) ==
    requestedSchoolId

\* token.role is read without a null check
Classroom_getEffectiveSchoolId(token, requestedSchoolId) ==
    IF token.role = "superadmin" THEN requestedSchoolId ELSE token.schoolId

\* custom validator 'capacity', and the min / max of the schema
ValidCapacity(capacity) == capacity >= MinCapacity /\ capacity <= MaxCapacity

\* classroom.findOne({ _id: {$ne: exceptId}, schoolId, name: /^name$/i,
\*                     isActive: true [, academicYear] })
ClassroomNameTaken(schoolId, name, academicYear, exceptId) ==
    \E i \in 1..Len(classrooms) :
        /\ i # exceptId
        /\ classrooms[i].schoolId = schoolId
        /\ classrooms[i].isActive
        /\ RegexMatchI(name, classrooms[i].name)
        /\ academicYear # NoYear => classrooms[i].academicYear = academicYear

\* unique index { name: 1, schoolId: 1, academicYear: 1 }
ClassroomIndexClash(schoolId, name, academicYear, exceptId) ==
    \E i \in 1..Len(classrooms) :
        /\ i # exceptId
        /\ classrooms[i].schoolId = schoolId
        /\ classrooms[i].name = name
        /\ classrooms[i].academicYear = academicYear

createClassroomResult(token, schoolId, name, capacity, academicYear) ==
    IF token = NoToken THEN Err("Authentication required", 401)
    ELSE IF /\ token.role = "school_admin"
            /\ schoolId # NoId
            /\ schoolId # token.schoolId
         THEN Err("Access denied. You can only access your assigned school.", 403)
    ELSE
    LET effectiveSchoolId == Classroom_getEffectiveSchoolId(token, schoolId)
        auth == Classroom_checkSchoolAccess(token, effectiveSchoolId)
    IN
    IF auth # NoError THEN auth
    ELSE IF token.role = "superadmin" /\ effectiveSchoolId = NoId
         THEN Err("School ID is required for superadmin", 0)
    ELSE IF name = NoName \/ ~ValidCapacity(capacity)
         THEN Err("validation errors", 0)
    ELSE IF ~Exists(schools, effectiveSchoolId) THEN Err("School not found", 0)
    ELSE IF ~schools[effectiveSchoolId].isActive
         THEN Err("Cannot create classroom in an inactive school", 0)
    ELSE IF ClassroomNameTaken(effectiveSchoolId, name, academicYear, NoId)
         THEN IF academicYear # NoYear
              THEN Err("A classroom with this name already exists in this school for the same academic year", 0)
              ELSE Err("A classroom with this name already exists in this school", 0)
    ELSE IF ClassroomIndexClash(effectiveSchoolId, name, academicYear, NoId)
         THEN Err(Thrown, 0)
    ELSE NoError

createClassroomAfter(token, schoolId, name, capacity, academicYear) ==
    IF createClassroomResult(token, schoolId, name, capacity, academicYear) = NoError
    THEN Append(classrooms,
                [schoolId |-> Classroom_getEffectiveSchoolId(token, schoolId),
                 name |-> name, academicYear |-> academicYear,
                 capacity |-> capacity, isActive |-> TRUE])
    ELSE classrooms

createClassroom(token, schoolId, name, capacity, academicYear) ==
    /\ Len(classrooms) < MaxClassrooms
    /\ classrooms' = createClassroomAfter(token, schoolId, name, capacity, academicYear)
    /\ last' = Res("createClassroom",
                   createClassroomResult(token, schoolId, name, capacity, academicYear))
    /\ UNCHANGED <<schools, students, pending, users, req>>

\* _getEffectiveSchoolId(null, ...): token.role of null is a TypeError
Classroom_getEffectiveSchoolIdThrows(token) == token = NoToken

\* the school clause is left out of the query
Classroom_querySchoolAny(token, effectiveSchoolId) == NoId

\* query.schoolId: the token's school for a school_admin, otherwise the
\* effective school when there is one (NoId: no school clause)
Classroom_querySchool(token, effectiveSchoolId) ==
    IF token.role = "school_admin" THEN token.schoolId ELSE effectiveSchoolId

getClassroomsResult(token, schoolId) ==
    IF Classroom_getEffectiveSchoolIdThrows(token) THEN Err(Thrown, 0)
    ELSE Classroom_checkSchoolAccess(token,
             Classroom_getEffectiveSchoolId(token, schoolId))

\* the classrooms matching the query (all pages together)
getClassroomsFound(token, schoolId, isActive) ==
    IF getClassroomsResult(token, schoolId) # NoError THEN {}
    ELSE LET q == Classroom_querySchool(token,
                      Classroom_getEffectiveSchoolId(token, schoolId))
         IN {i \in 1..Len(classrooms) :
                /\ q # NoId => classrooms[i].schoolId = q
                /\ isActive # Undef => classrooms[i].isActive = (isActive = 1)}

getClassrooms(token, schoolId, isActive) ==
    /\ getClassroomsFound(token, schoolId, isActive) \subseteq 1..Len(classrooms)
    /\ last' = Res("getClassrooms", getClassroomsResult(token, schoolId))
    /\ UNCHANGED <<schools, classrooms, students, pending, users, req>>

getClassroomResult(token, classroomId) ==
    IF token = NoToken THEN Err("Authentication required", 401)
    ELSE IF classroomId = NoId THEN Err("Classroom ID is required", 0)
    ELSE IF ~Exists(classrooms, classroomId) THEN Err("Classroom not found", 0)
    ELSE Classroom_checkSchoolAccess(token, classrooms[classroomId].schoolId)

getClassroom(token, classroomId) ==
    /\ last' = Res("getClassroom", getClassroomResult(token, classroomId))
    /\ UNCHANGED <<schools, classrooms, students, pending, users, req>>

updateClassroomResult(token, classroomId, name, capacity, academicYear) ==
    IF token = NoToken THEN Err("Authentication required", 401)
    ELSE IF classroomId = NoId THEN Err("Classroom ID is required", 0)
    ELSE IF ~Exists(classrooms, classroomId) THEN Err("Classroom not found", 0)
    ELSE
    LET classroom == classrooms[classroomId]
        auth == Classroom_checkSchoolAccess(token, classroom.schoolId)
        newName == IF name # Unset THEN name ELSE classroom.name
        newYear == IF academicYear # Unset THEN academicYear
                   ELSE classroom.academicYear
        newCapacity == IF capacity # Undef THEN capacity ELSE classroom.capacity
    IN
    IF auth # NoError THEN auth
    ELSE IF /\ capacity # Undef
            /\ capacity < classroom.capacity
            /\ CountActiveStudents(students, classroomId) > capacity
         THEN Err("Cannot reduce capacity below current student count", 0)
    ELSE IF /\ name # Unset
            /\ name # NoName
            /\ name # classroom.name
            /\ ClassroomNameTaken(classroom.schoolId, name,
                    IF academicYear # Unset /\ academicYear # NoYear
                    THEN academicYear ELSE classroom.academicYear,
                    classroomId)
         THEN Err("A classroom with this name already exists in this school", 0)
    \* classroom.save(): schema validation, then the unique index
    ELSE IF newName = NoName \/ ~ValidCapacity(newCapacity)
         THEN Err(Thrown, 0)
    ELSE IF ClassroomIndexClash(classroom.schoolId, newName, newYear, classroomId)
         THEN Err(Thrown, 0)
    ELSE NoError

\* the update also moves the classroom to the next school
updateClassroomAfterMoved(token, classroomId, name, capacity, academicYear, isActive) ==
    IF updateClassroomResult(token, classroomId, name, capacity, academicYear) = NoError
    THEN [classrooms EXCEPT ![classroomId] =
             [schoolId |-> (@.schoolId % MaxSchools) + 1,
              name |-> IF name # Unset THEN name ELSE @.name,
              academicYear |-> IF academicYear # Unset
                               THEN academicYear ELSE @.academicYear,
              capacity |-> IF capacity # Undef THEN capacity ELSE @.capacity,
              isActive |-> IF isActive # Undef THEN isActive = 1 ELSE @.isActive]]
    ELSE classrooms

updateClassroomAfter(token, classroomId, name, capacity, academicYear, isActive) ==
    IF updateClassroomResult(token, classroomId, name, capacity, academicYear) = NoError
    THEN [classrooms EXCEPT ![classroomId] =
             [schoolId |-> @.schoolId,
              name |-> IF name # Unset THEN name ELSE @.name,
              academicYear |-> IF academicYear # Unset
                               THEN academicYear ELSE @.academicYear,
              capacity |-> IF capacity # Undef THEN capacity ELSE @.capacity,
              isActive |-> IF isActive # Undef THEN isActive = 1 ELSE @.isActive]]
    ELSE classrooms

updateClassroom(token, classroomId, name, capacity, academicYear, isActive) ==
    /\ classrooms' = updateClassroomAfter(token, classroomId, name, capacity,
                                          academicYear, isActive)
    /\ last' = Res("updateClassroom",
                   updateClassroomResult(token, classroomId, name, capacity,
                                         academicYear))
    /\ UNCHANGED <<schools, students, pending, users, req>>

HasActiveStudents ==
    "Cannot delete classroom with active students. Please transfer or remove students first."

\* deleteClassroom without the count of the active students
deleteClassroomResultUnchecked(token, classroomId) ==
    IF token = NoToken THEN Err("Authentication required", 401)
    ELSE IF classroomId = NoId THEN Err("Classroom ID is required", 0)
    ELSE IF ~Exists(classrooms, classroomId) THEN Err("Classroom not found", 0)
    ELSE IF Classroom_checkSchoolAccess(token, classrooms[classroomId].schoolId)
                # NoError
         THEN Classroom_checkSchoolAccess(token, classrooms[classroomId].schoolId)
    ELSE IF ~classrooms[classroomId].isActive
         THEN Err("Classroom is already inactive", 0)
    ELSE NoError

deleteClassroomResult(token, classroomId) ==
    IF token = NoToken THEN Err("Authentication required", 401)
    ELSE IF classroomId = NoId THEN Err("Classroom ID is required", 0)
    ELSE IF ~Exists(classrooms, classroomId) THEN Err("Classroom not found", 0)
    ELSE
    LET auth == Classroom_checkSchoolAccess(token, classrooms[classroomId].schoolId)
    IN
    IF auth # NoError THEN auth
    ELSE IF ~classrooms[classroomId].isActive
         THEN Err("Classroom is already inactive", 0)
    ELSE IF CountActiveStudents(students, classroomId) > 0
         THEN Err(HasActiveStudents, 0)
    ELSE NoError

\* the whole object deleteClassroom returns
deleteClassroomResponse(token, classroomId) ==
    LET r == deleteClassroomResult(token, classroomId) IN
    IF r.error = HasActiveStudents
    THEN [Res("deleteClassroom", r) EXCEPT
             !.activeStudents = CountActiveStudents(students, classroomId)]
    ELSE Res("deleteClassroom", r)

deleteClassroomAfter(token, classroomId) ==
    IF deleteClassroomResult(token, classroomId) = NoError
    THEN [classrooms EXCEPT ![classroomId].isActive = FALSE]
    ELSE classrooms

deleteClassroom(token, classroomId) ==
    /\ classrooms' = deleteClassroomAfter(token, classroomId)
    /\ last' = deleteClassroomResponse(token, classroomId)
    /\ UNCHANGED <<schools, students, pending, users, req>>

----------------------------------------------------------------------------
(* Student model and manager *)

\* studentSchema.pre('save'): a modified, non-null classroomId must name a
\* classroom of the student's school, otherwise save() throws
PreSaveOk(old, new) ==
    (new.classroomId # NoId /\ new.classroomId # old.classroomId)
        => /\ Exists(classrooms, new.classroomId)
           /\ classrooms[new.classroomId].schoolId = new.schoolId

\* the document before its first save: every path it sets is modified
Unsaved == [schoolId |-> NoId, classroomId |-> NoId, isActive |-> TRUE,
            transferHistory |-> <<>>]

\* a school_admin passes whatever school the token names
Student_checkSchoolAccessUnscoped(token, schoolId) ==
    IF token = NoToken THEN Err("Authentication required", 401)
    ELSE IF token.role \in {"superadmin", "school_admin"} THEN NoError
    ELSE Err("Access denied.", 403)

Student_checkSchoolAccess(token, schoolId) ==
    IF token = NoToken THEN Err("Authentication required", 401)
    ELSE IF token.role = "superadmin" THEN NoError
    ELSE IF token.role = "school_admin"
         THEN IF schoolId = NoId THEN NoError
              ELSE IF token.schoolId # schoolId
                   THEN Err("Access denied. You can only access students in your assigned school.", 403)
                   ELSE NoError
    ELSE Err("Access denied.", 403)

Student_getEffectiveSchoolId(token, requestedSchoolId) ==
    IF token = NoToken THEN requestedSchoolId
    ELSE IF token.role = "superadmin" THEN requestedSchoolId
    ELSE token.schoolId

\* the comparison off by one: one student too many is let in
AtCapacityOffByOne(currentStudents, capacity) == currentStudents > capacity

\* currentStudents >= classroom.capacity
AtCapacity(currentStudents, capacity) == currentStudents >= capacity

\* student.create({ schoolId: effectiveSchoolId, classroomId, ... })
NewStudent(schoolId, classroomId) ==
    [schoolId |-> schoolId, classroomId |-> classroomId, isActive |-> TRUE,
     transferHistory |-> <<>>]

\* the enrolment without the test of the classroom's isActive
createStudentResultAnyClassroom(token, schoolId, classroomId, validFields) ==
    IF token = NoToken THEN Err("Authentication required", 401)
    ELSE IF /\ token.role = "school_admin"
            /\ schoolId # NoId
            /\ schoolId # token.schoolId
         THEN Err("Access denied. You can only access students in your assigned school.", 403)
    ELSE
    LET effectiveSchoolId == Student_getEffectiveSchoolId(token, schoolId)
        auth == Student_checkSchoolAccess(token, effectiveSchoolId)
    IN
    IF auth # NoError THEN auth
    ELSE IF token.role = "superadmin" /\ effectiveSchoolId = NoId
         THEN Err("School ID is required for superadmin", 0)
    ELSE IF ~validFields THEN Err("validation errors", 0)
    ELSE IF ~Exists(schools, effectiveSchoolId) THEN Err("School not found", 0)
    ELSE IF ~schools[effectiveSchoolId].isActive
         THEN Err("Cannot enroll student in an inactive school", 0)
    ELSE IF classroomId # NoId /\ ~Exists(classrooms, classroomId)
         THEN Err("Classroom not found", 0)
    ELSE IF classroomId # NoId /\ classrooms[classroomId].schoolId # effectiveSchoolId
         THEN Err("Classroom does not belong to the specified school", 0)
    ELSE IF /\ classroomId # NoId
            /\ AtCapacity(CountActiveStudents(students, classroomId),
                          classrooms[classroomId].capacity)
         THEN Err("Classroom is at full capacity", 0)
    ELSE IF ~PreSaveOk(Unsaved, NewStudent(effectiveSchoolId, classroomId))
         THEN Err(Thrown, 0)
    ELSE NoError

createStudentResult(token, schoolId, classroomId, validFields) ==
    IF token = NoToken THEN Err("Authentication required", 401)
    ELSE IF /\ token.role = "school_admin"
            /\ schoolId # NoId
            /\ schoolId # token.schoolId
         THEN Err("Access denied. You can only access students in your assigned school.", 403)
    ELSE
    LET effectiveSchoolId == Student_getEffectiveSchoolId(token, schoolId)
        auth == Student_checkSchoolAccess(token, effectiveSchoolId)
    IN
    IF auth # NoError THEN auth
    ELSE IF token.role = "superadmin" /\ effectiveSchoolId = NoId
         THEN Err("School ID is required for superadmin", 0)
    ELSE IF ~validFields THEN Err("validation errors", 0)
    ELSE IF ~Exists(schools, effectiveSchoolId) THEN Err("School not found", 0)
    ELSE IF ~schools[effectiveSchoolId].isActive
         THEN Err("Cannot enroll student in an inactive school", 0)
    ELSE IF classroomId # NoId /\ ~Exists(classrooms, classroomId)
         THEN Err("Classroom not found", 0)
    ELSE IF classroomId # NoId /\ ~classrooms[classroomId].isActive
         THEN Err("Cannot enroll student in an inactive classroom", 0)
    ELSE IF classroomId # NoId /\ classrooms[classroomId].schoolId # effectiveSchoolId
         THEN Err("Classroom does not belong to the specified school", 0)
    ELSE IF /\ classroomId # NoId
            /\ AtCapacity(CountActiveStudents(students, classroomId),
                          classrooms[classroomId].capacity)
         THEN Err("Classroom is at full capacity", 0)
    ELSE IF ~PreSaveOk(Unsaved, NewStudent(effectiveSchoolId, classroomId))
         THEN Err(Thrown, 0)
    ELSE NoError

createStudentAfter(token, schoolId, classroomId, validFields) ==
    IF createStudentResult(token, schoolId, classroomId, validFields) = NoError
    THEN Append(students,
                NewStudent(Student_getEffectiveSchoolId(token, schoolId), classroomId))
    ELSE students

createStudent(token, schoolId, classroomId, validFields) ==
    /\ Len(students) < MaxStudents
    /\ students' = createStudentAfter(token, schoolId, classroomId, validFields)
    /\ last' = Res("createStudent",
                   createStudentResult(token, schoolId, classroomId, validFields))
    /\ UNCHANGED <<schools, classrooms, pending, users, req>>

\* the school clause is left out of the query
Student_querySchoolAny(token, effectiveSchoolId) == NoId

\* query.schoolId: the token's school for a school_admin, otherwise the
\* effective school when there is one (NoId: no school clause)
Student_querySchool(token, effectiveSchoolId) ==
    IF token.role = "school_admin" THEN token.schoolId ELSE effectiveSchoolId

getStudentsResult(token, schoolId) ==
    Student_checkSchoolAccess(token, Student_getEffectiveSchoolId(token, schoolId))

\* the students matching the query (all pages together)
getStudentsFound(token, schoolId, classroomId, isActive) ==
    IF getStudentsResult(token, schoolId) # NoError THEN {}
    ELSE LET q == Student_querySchool(token,
                      Student_getEffectiveSchoolId(token, schoolId))
         IN {i \in 1..Len(students) :
                /\ q # NoId => students[i].schoolId = q
                /\ classroomId # NoId => students[i].classroomId = classroomId
                /\ isActive # Undef => students[i].isActive = (isActive = 1)}

getStudents(token, schoolId, classroomId, isActive) ==
    /\ getStudentsFound(token, schoolId, classroomId, isActive)
            \subseteq 1..Len(students)
    /\ last' = Res("getStudents", getStudentsResult(token, schoolId))
    /\ UNCHANGED <<schools, classrooms, students, pending, users, req>>

getStudentResult(token, studentId) ==
    IF token = NoToken THEN Err("Authentication required", 401)
    ELSE IF studentId = NoId THEN Err("Student ID is required", 0)
    ELSE IF ~Exists(students, studentId) THEN Err("Student not found", 0)
    ELSE Student_checkSchoolAccess(token, students[studentId].schoolId)

getStudent(token, studentId) ==
    /\ last' = Res("getStudent", getStudentResult(token, studentId))
    /\ UNCHANGED <<schools, classrooms, students, pending, users, req>>

\* the "Update fields" block of updateStudent
UpdatedStudent(student, classroomId, isActive) ==
    [student EXCEPT
        !.classroomId = IF classroomId # Undef THEN classroomId ELSE @,
        !.isActive = IF isActive # Undef THEN isActive = 1 ELSE @]

updateStudentResult(token, studentId, classroomId, isActive) ==
    IF token = NoToken THEN Err("Authentication required", 401)
    ELSE IF studentId = NoId THEN Err("Student ID is required", 0)
    ELSE IF ~Exists(students, studentId) THEN Err("Student not found", 0)
    ELSE
    LET student == students[studentId]
        auth == Student_checkSchoolAccess(token, student.schoolId)
        moving == /\ classroomId # Undef
                  /\ classroomId # NoId
                  /\ classroomId # student.classroomId
    IN
    IF auth # NoError THEN auth
    ELSE IF moving /\ ~Exists(classrooms, classroomId)
         THEN Err("Classroom not found", 0)
    ELSE IF moving /\ ~classrooms[classroomId].isActive
         THEN Err("Cannot move student to an inactive classroom", 0)
    ELSE IF moving /\ classrooms[classroomId].schoolId # student.schoolId
         THEN Err("Use transferStudent to move student to a different school's classroom", 0)
    ELSE IF /\ moving
            /\ AtCapacity(CountActiveStudents(students, classroomId),
                          classrooms[classroomId].capacity)
         THEN Err("Target classroom is at full capacity", 0)
    ELSE IF ~PreSaveOk(student, UpdatedStudent(student, classroomId, isActive))
         THEN Err(Thrown, 0)
    ELSE NoError

updateStudentAfter(token, studentId, classroomId, isActive) ==
    IF updateStudentResult(token, studentId, classroomId, isActive) = NoError
    THEN [students EXCEPT ![studentId] = UpdatedStudent(@, classroomId, isActive)]
    ELSE students

updateStudent(token, studentId, classroomId, isActive) ==
    /\ students' = updateStudentAfter(token, studentId, classroomId, isActive)
    /\ last' = Res("updateStudent",
                   updateStudentResult(token, studentId, classroomId, isActive))
    /\ UNCHANGED <<schools, classrooms, pending, users, req>>

\* the seat is freed but the student is left active
UnenrolledStillActive(student) ==
    [student EXCEPT !.classroomId = NoId]

\* the "Soft delete" block of deleteStudent
Unenrolled(student) ==
    [student EXCEPT !.isActive = FALSE, !.classroomId = NoId]

deleteStudentResult(token, studentId) ==
    IF token = NoToken THEN Err("Authentication required", 401)
    ELSE IF studentId = NoId THEN Err("Student ID is required", 0)
    ELSE IF ~Exists(students, studentId) THEN Err("Student not found", 0)
    ELSE
    LET auth == Student_checkSchoolAccess(token, students[studentId].schoolId)
    IN
    IF auth # NoError THEN auth
    ELSE IF ~students[studentId].isActive
         THEN Err("Student is already unenrolled", 0)
    ELSE NoError

deleteStudentAfter(token, studentId) ==
    IF deleteStudentResult(token, studentId) = NoError
    THEN [students EXCEPT ![studentId] = Unenrolled(@)]
    ELSE students

deleteStudent(token, studentId) ==
    /\ students' = deleteStudentAfter(token, studentId)
    /\ last' = Res("deleteStudent", deleteStudentResult(token, studentId))
    /\ UNCHANGED <<schools, classrooms, pending, users, req>>

\* the comparison of the two school ids inverted
IsCrossSchoolTransferInverted(toSchoolId, fromSchoolId) ==
    toSchoolId # NoId /\ toSchoolId = fromSchoolId

\* const isCrossSchoolTransfer = toSchoolId && toSchoolId !== fromSchoolId
IsCrossSchoolTransfer(toSchoolId, fromSchoolId) ==
    toSchoolId # NoId /\ toSchoolId # fromSchoolId

\* the entry built from the student after the student was updated
TransferEntryAfterUpdate(student, toSchoolId, toClassroomId, reason) ==
    [fromSchool |-> IF toSchoolId # NoId THEN toSchoolId ELSE student.schoolId,
     toSchool |-> IF toSchoolId # NoId THEN toSchoolId ELSE student.schoolId,
     fromClassroom |-> toClassroomId,
     toClassroom |-> toClassroomId,
     reason |-> reason]

\* the transferEntry object
TransferEntry(student, toSchoolId, toClassroomId, reason) ==
    [fromSchool |-> student.schoolId,
     toSchool |-> IF toSchoolId # NoId THEN toSchoolId ELSE student.schoolId,
     fromClassroom |-> student.classroomId,
     toClassroom |-> toClassroomId,
     \* reason || ''
     reason |-> IF reason = Unset THEN NoReason ELSE reason]

\* a transfer that leaves the classroom alone when no toClassroomId is given
TransferredKeepingClassroom(student, toSchoolId, toClassroomId, reason) ==
    [student EXCEPT
        !.schoolId = IF toSchoolId # NoId THEN toSchoolId ELSE @,
        !.classroomId = IF toClassroomId # NoId THEN toClassroomId ELSE @,
        !.transferHistory =
            Append(@, [fromSchool |-> student.schoolId,
                       toSchool |-> IF toSchoolId # NoId THEN toSchoolId
                                    ELSE student.schoolId,
                       fromClassroom |-> student.classroomId,
                       toClassroom |-> toClassroomId,
                       reason |-> reason])]

\* the "Update student" block of transferStudent
Transferred(student, toSchoolId, toClassroomId, reason) ==
    [student EXCEPT
        !.schoolId = IF toSchoolId # NoId THEN toSchoolId ELSE @,
        !.classroomId = toClassroomId,
        !.transferHistory =
            Append(@, TransferEntry(student, toSchoolId, toClassroomId, reason))]

transferStudentResult(token, studentId, toSchoolId, toClassroomId, reason) ==
    IF token = NoToken THEN Err("Authentication required", 401)
    ELSE IF studentId = NoId THEN Err("Student ID is required", 0)
    ELSE IF toSchoolId = NoId /\ toClassroomId = NoId
         THEN Err("At least one of toSchoolId or toClassroomId is required", 0)
    ELSE IF ~Exists(students, studentId) THEN Err("Student not found", 0)
    ELSE IF ~students[studentId].isActive
         THEN Err("Cannot transfer an inactive student", 0)
    ELSE
    LET student == students[studentId]
        fromSchoolId == student.schoolId
        targetSchoolId == IF toSchoolId # NoId THEN toSchoolId ELSE fromSchoolId
        sourceAuth == Student_checkSchoolAccess(token, fromSchoolId)
    IN
    IF sourceAuth # NoError THEN sourceAuth
    ELSE IF /\ IsCrossSchoolTransfer(toSchoolId, fromSchoolId)
            /\ token.role # "superadmin"
         THEN Err("Only superadmins can transfer students between schools", 403)
    ELSE IF toSchoolId # NoId /\ ~Exists(schools, toSchoolId)
         THEN Err("Target school not found", 0)
    ELSE IF toSchoolId # NoId /\ ~schools[toSchoolId].isActive
         THEN Err("Cannot transfer student to an inactive school", 0)
    ELSE IF toClassroomId # NoId /\ ~Exists(classrooms, toClassroomId)
         THEN Err("Target classroom not found", 0)
    ELSE IF toClassroomId # NoId /\ ~classrooms[toClassroomId].isActive
         THEN Err("Cannot transfer student to an inactive classroom", 0)
    ELSE IF /\ toClassroomId # NoId
            /\ classrooms[toClassroomId].schoolId # targetSchoolId
         THEN Err("Target classroom does not belong to the target school", 0)
    ELSE IF /\ toClassroomId # NoId
            /\ AtCapacity(CountActiveStudents(students, toClassroomId),
                          classrooms[toClassroomId].capacity)
         THEN Err("Target classroom is at full capacity", 0)
    ELSE IF ~PreSaveOk(student,
                       Transferred(student, toSchoolId, toClassroomId, reason))
         THEN Err(Thrown, 0)
    ELSE NoError

\* the school is written before the target classroom turns out to be full
transferStudentAfterPartial(token, studentId, toSchoolId, toClassroomId, reason) ==
    LET r == transferStudentResult(token, studentId, toSchoolId, toClassroomId,
                                   reason)
    IN
    IF r = NoError
    THEN [students EXCEPT ![studentId] =
             Transferred(@, toSchoolId, toClassroomId, reason)]
    ELSE IF r.error = "Target classroom is at full capacity" /\ toSchoolId # NoId
    THEN [students EXCEPT ![studentId].schoolId = toSchoolId]
    ELSE students

transferStudentAfter(token, studentId, toSchoolId, toClassroomId, reason) ==
    IF transferStudentResult(token, studentId, toSchoolId, toClassroomId, reason)
         = NoError
    THEN [students EXCEPT ![studentId] =
             Transferred(@, toSchoolId, toClassroomId, reason)]
    ELSE students

RECURSIVE TransfersUpTo(_)
TransfersUpTo(n) ==
    IF n = 0 THEN 0
    ELSE Len(students[n].transferHistory) + TransfersUpTo(n - 1)

\* the histories are bounded: requests stop after MaxTransfers transfers
transferStudent(token, studentId, toSchoolId, toClassroomId, reason) ==
    /\ TransfersUpTo(Len(students)) < MaxTransfers
    /\ students' = transferStudentAfter(token, studentId, toSchoolId,
                                        toClassroomId, reason)
    /\ last' = Res("transferStudent",
                   transferStudentResult(token, studentId, toSchoolId,
                                         toClassroomId, reason))
    /\ UNCHANGED <<schools, classrooms, pending, users, req>>

----------------------------------------------------------------------------
(* Requests in flight. A handler reads and checks, then saves; between   *)
(* the two, other requests run. `pending` holds the documents that were  *)
(* loaded (or built) and modified in memory and are not saved yet.       *)

MaxRequests == 2

InFlight(op, studentId, loaded, doc) ==
    [op |-> op, studentId |-> studentId, loaded |-> loaded, doc |-> doc]

PendingOf(op) == Len(SelectSeq(pending, LAMBDA q : q.op = op))

\* the checks of a handler up to its save: the pre-save hook runs later
Checked(r) == IF r = Err(Thrown, 0) THEN NoError ELSE r

\* document.save(): the paths whose value was changed in memory are written
\* over the stored document, the pushed history entries are appended
Saved(stored, loaded, doc) ==
    [schoolId |-> IF doc.schoolId # loaded.schoolId
                  THEN doc.schoolId ELSE stored.schoolId,
     classroomId |-> IF doc.classroomId # loaded.classroomId
                     THEN doc.classroomId ELSE stored.classroomId,
     isActive |-> IF doc.isActive # loaded.isActive
                  THEN doc.isActive ELSE stored.isActive,
     transferHistory |->
         stored.transferHistory
             \o SubSeq(doc.transferHistory, Len(loaded.transferHistory) + 1,
                       Len(doc.transferHistory))]

\* createStudent up to student.create(...)
createStudentRead(token, schoolId, classroomId) ==
    LET r == Checked(createStudentResult(token, schoolId, classroomId, TRUE)) IN
    /\ Len(pending) < MaxRequests
    /\ Len(students) + PendingOf("createStudent") < MaxStudents
    /\ IF r = NoError
       THEN /\ pending' = Append(pending,
                   InFlight("createStudent", NoId, Unsaved,
                            NewStudent(Student_getEffectiveSchoolId(token, schoolId),
                                       classroomId)))
            /\ UNCHANGED last
       ELSE /\ last' = Res("createStudent", r)
            /\ UNCHANGED pending
    /\ UNCHANGED <<schools, classrooms, students, users, req>>

\* updateStudent up to student.save()
updateStudentRead(token, studentId, classroomId, isActive) ==
    LET r == Checked(updateStudentResult(token, studentId, classroomId, isActive))
    IN
    /\ Len(pending) < MaxRequests
    /\ IF r = NoError
       THEN /\ pending' = Append(pending,
                   InFlight("updateStudent", studentId, students[studentId],
                            UpdatedStudent(students[studentId], classroomId,
                                           isActive)))
            /\ UNCHANGED last
       ELSE /\ last' = Res("updateStudent", r)
            /\ UNCHANGED pending
    /\ UNCHANGED <<schools, classrooms, students, users, req>>

\* transferStudent up to student.save()
transferStudentRead(token, studentId, toSchoolId, toClassroomId, reason) ==
    LET r == Checked(transferStudentResult(token, studentId, toSchoolId,
                                           toClassroomId, reason))
    IN
    /\ Len(pending) < MaxRequests
    /\ TransfersUpTo(Len(students)) + PendingOf("transferStudent") < MaxTransfers
    /\ IF r = NoError
       THEN /\ pending' = Append(pending,
                   InFlight("transferStudent", studentId, students[studentId],
                            Transferred(students[studentId], toSchoolId,
                                        toClassroomId, reason)))
            /\ UNCHANGED last
       ELSE /\ last' = Res("transferStudent", r)
            /\ UNCHANGED pending
    /\ UNCHANGED <<schools, classrooms, students, users, req>>

Without(seq, i) == SubSeq(seq, 1, i - 1) \o SubSeq(seq, i + 1, Len(seq))

\* a create that counts the classroom's students again and refuses when the
\* classroom has filled up since the check
saveRechecked(i) ==
    /\ i \in 1..Len(pending)
    /\ LET q == pending[i]
           full == /\ q.op = "createStudent"
                   /\ q.doc.classroomId # NoId
                   /\ AtCapacity(CountActiveStudents(students, q.doc.classroomId),
                                 classrooms[q.doc.classroomId].capacity)
       IN
       IF full \/ ~PreSaveOk(q.loaded, q.doc)
       THEN /\ last' = Res(q.op, IF full THEN Err("Classroom is at full capacity", 0)
                                 ELSE Err(Thrown, 0))
            /\ UNCHANGED students
       ELSE /\ last' = Res(q.op, NoError)
            /\ students' = IF q.op = "createStudent"
                           THEN Append(students, q.doc)
                           ELSE [students EXCEPT ![q.studentId] =
                                    Saved(@, q.loaded, q.doc)]
    /\ pending' = Without(pending, i)
    /\ UNCHANGED <<schools, classrooms, users, req>>

\* student.create(...) / student.save() of the request in flight at position
\* i: the pre-save hook, then the write
save(i) ==
    /\ i \in 1..Len(pending)
    /\ LET q == pending[i] IN
       IF ~PreSaveOk(q.loaded, q.doc)
       THEN /\ last' = Res(q.op, Err(Thrown, 0))
            /\ UNCHANGED students
       ELSE /\ last' = Res(q.op, NoError)
            /\ students' = IF q.op = "createStudent"
                           THEN Append(students, q.doc)
                           ELSE [students EXCEPT ![q.studentId] =
                                    Saved(@, q.loaded, q.doc)]
    /\ pending' = Without(pending, i)
    /\ UNCHANGED <<schools, classrooms, users, req>>

----------------------------------------------------------------------------
(* User manager (src/unnamed/part_003) *)

MaxUsers == 2

\* bcrypt hash written by the pre-save hook, and user.comparePassword
Hash(password) == [hashed |-> password]
comparePassword(user, password) == user.password = Hash(password)

\* validators.user.createUser: username, email, password and role are
\* required, role is one of superadmin, school_admin
ValidUser(username, email, password, role) ==
    /\ username # Unset
    /\ email # Unset
    /\ password # Unset
    /\ role \in {"superadmin", "school_admin"}

\* user.findOne({ $or: [{ email }, { username }] })
UserTaken(username, email) ==
    \E i \in 1..Len(users) :
        users[i].email = email \/ users[i].username = username

createUserResult(username, email, password, role, schoolId) ==
    IF ~ValidUser(username, email, password, role)
    THEN Err("validation errors", 0)
    ELSE IF UserTaken(username, email)
    THEN Err("User with this email or username already exists", 0)
    ELSE IF role = "school_admin" /\ schoolId = NoId
    THEN Err("School ID is required for school admin", 0)
    ELSE IF schoolId # NoId /\ ~Exists(schools, schoolId)
    THEN Err("Invalid school ID", 0)
    ELSE NoError

\* user.create({ ..., schoolId: role === 'school_admin' ? schoolId : undefined })
CreatedUser(username, email, password, role, schoolId) ==
    [username |-> username, email |-> email, password |-> Hash(password),
     role |-> role,
     schoolId |-> IF role = "school_admin" THEN schoolId ELSE NoId]

createUserAfter(username, email, password, role, schoolId) ==
    IF createUserResult(username, email, password, role, schoolId) = NoError
    THEN Append(users, CreatedUser(username, email, password, role, schoolId))
    ELSE users

\* tokenManager.genLongToken({ userId, userKey, role, schoolId })
genLongToken(userId, user) ==
    [userId |-> userId, userKey |-> user.username,
     role |-> user.role, schoolId |-> user.schoolId]

NoLongToken == [userId |-> NoId, userKey |-> Unset,
                role |-> "null", schoolId |-> NoId]

\* the token is built from the request instead of the stored user
createUserTokenFromRequest(username, email, password, role, schoolId) ==
    IF createUserResult(username, email, password, role, schoolId) = NoError
    THEN [userId |-> Len(users) + 1, userKey |-> username,
          role |-> role, schoolId |-> schoolId]
    ELSE NoLongToken

\* longToken of the createUser response
createUserToken(username, email, password, role, schoolId) ==
    IF createUserResult(username, email, password, role, schoolId) = NoError
    THEN genLongToken(Len(users) + 1,
                      CreatedUser(username, email, password, role, schoolId))
    ELSE NoLongToken

createUser(username, email, password, role, schoolId) ==
    /\ Len(users) < MaxUsers
    /\ users' = createUserAfter(username, email, password, role, schoolId)
    /\ last' = Res("createUser",
                   createUserResult(username, email, password, role, schoolId))
    /\ UNCHANGED <<schools, classrooms, students, pending, req>>

\* user.findOne({ email }): 0 when there is none
UserByEmail(email) ==
    IF \E i \in 1..Len(users) : users[i].email = email
    THEN CHOOSE i \in 1..Len(users) :
            /\ users[i].email = email
            /\ \A j \in 1..(i - 1) : users[j].email # email
    ELSE NoId

loginResult(email, password) ==
    IF email = Unset \/ password = Unset
    THEN Err("Email and password are required", 0)
    ELSE IF UserByEmail(email) = NoId
    THEN Err("Invalid email or password", 0)
    ELSE IF ~comparePassword(users[UserByEmail(email)], password)
    THEN Err("Invalid email or password", 0)
    ELSE NoError

\* longToken of the login response
loginToken(email, password) ==
    IF loginResult(email, password) = NoError
    THEN genLongToken(UserByEmail(email), users[UserByEmail(email)])
    ELSE NoLongToken

login(email, password) ==
    /\ last' = Res("login", loginResult(email, password))
    /\ UNCHANGED <<schools, classrooms, students, pending, users, req>>

\* user.findOne({ _id: { $ne: userId }, $or: [{ username }, { email }] })
UserTakenByOther(userId, username, email) ==
    \E i \in 1..Len(users) :
        /\ i # userId
        /\ \/ username # Unset /\ users[i].username = username
           \/ email # Unset /\ users[i].email = email

updateUserResult(token, username, email, password) ==
    IF token.userId = NoId THEN Err("Authentication required", 0)
    ELSE IF ~Exists(users, token.userId) THEN Err("User not found", 0)
    ELSE IF (username # Unset \/ email # Unset)
            /\ UserTakenByOther(token.userId, username, email)
    THEN Err("Username or email already in use", 0)
    ELSE NoError

updateUserAfter(token, username, email, password) ==
    IF updateUserResult(token, username, email, password) = NoError
    THEN [users EXCEPT ![token.userId] =
            [@ EXCEPT
               !.username = IF username # Unset THEN username ELSE @,
               !.email = IF email # Unset THEN email ELSE @,
               !.password = IF password # Unset THEN Hash(password) ELSE @]]
    ELSE users

updateUser(token, username, email, password) ==
    /\ users' = updateUserAfter(token, username, email, password)
    /\ last' = Res("updateUser",
                   updateUserResult(token, username, email, password))
    /\ UNCHANGED <<schools, classrooms, students, pending, req>>

----------------------------------------------------------------------------
(* Pagination of the list operations                                      *)
(* (School.manager.js:111-137, part_004:302-343,                          *)
(*  Student.manager.js:244-271)                                           *)

DefaultPage == 1
DefaultLimit == 10
MaxLimit == 100

\* a page or limit parameter as the characters of the query string; an
\* absent parameter and an empty one are both <<>>
Absent == <<>>

Digits == {"0", "1", "2", "3", "4", "5", "6", "7", "8", "9"}

DigitValue(c) ==
    CASE c = "0" -> 0 [] c = "1" -> 1 [] c = "2" -> 2 [] c = "3" -> 3
      [] c = "4" -> 4 [] c = "5" -> 5 [] c = "6" -> 6 [] c = "7" -> 7
      [] c = "8" -> 8 [] c = "9" -> 9

\* the characters after an optional sign
Unsigned(s) ==
    IF s # <<>> /\ Head(s) \in {"-", "+"} THEN Tail(s) ELSE s

\* parseInt(s) is NaN: no digit after the optional sign
IsNaN(s) == Unsigned(s) = <<>> \/ Head(Unsigned(s)) \notin Digits

RECURSIVE LeadingDigits(_, _)
LeadingDigits(s, acc) ==
    IF s = <<>> \/ Head(s) \notin Digits THEN acc
    ELSE LeadingDigits(Tail(s), acc * 10 + DigitValue(Head(s)))

\* parseInt(s) when it is a number: the leading digits, anything after them
\* is ignored
parseInt(s) ==
    IF s # <<>> /\ Head(s) = "-"
    THEN 0 - LeadingDigits(Unsigned(s), 0)
    ELSE LeadingDigits(Unsigned(s), 0)

\* parseInt(s) || d: NaN and 0 are falsy; an absent parameter takes the
\* default value of the destructuring, which is d as well
ParseIntOr(s, d) ==
    IF IsNaN(s) \/ parseInt(s) = 0 THEN d ELSE parseInt(s)

Max(a, b) == IF a >= b THEN a ELSE b
Min(a, b) == IF a <= b THEN a ELSE b

\* Math.max(1, parseInt(page) || 1)
pageNum(page) == Max(1, ParseIntOr(page, DefaultPage))

\* the limit is not capped
limitNumUncapped(limit) == Max(1, ParseIntOr(limit, DefaultLimit))

\* Math.min(100, Math.max(1, parseInt(limit) || 10))
limitNum(limit) == Min(MaxLimit, Max(1, ParseIntOr(limit, DefaultLimit)))

\* (pageNum - 1) * limitNum
skip(page, limit) == (pageNum(page) - 1) * limitNum(limit)

\* Math.ceil(total / limitNum)
pages(total, limit) == 0 - ((0 - total) \div limitNum(limit))

\* find(query).sort({ createdAt: -1 }).skip(skip).limit(limitNum): the ids
\* found, newest first, without the first skip ones, limitNum at most
Paginate(found, page, limit) ==
    LET rank(i) == Cardinality({j \in found : j >= i})
        n == Min(limitNum(limit),
                 Max(0, Cardinality(found) - skip(page, limit)))
    IN [k \in 1..n |->
          CHOOSE i \in found : rank(i) = skip(page, limit) + k]

\* pagination: { page, limit, total, pages }
Pagination(found, page, limit) ==
    [page |-> pageNum(page), limit |-> limitNum(limit),
     total |-> Cardinality(found),
     pages |-> pages(Cardinality(found), limit)]

getSchoolsPage(token, isActive, page, limit) ==
    Paginate(getSchoolsFound(token, isActive), page, limit)

getSchoolsPagination(token, isActive, page, limit) ==
    Pagination(getSchoolsFound(token, isActive), page, limit)

getClassroomsPage(token, schoolId, isActive, page, limit) ==
    Paginate(getClassroomsFound(token, schoolId, isActive), page, limit)

getClassroomsPagination(token, schoolId, isActive, page, limit) ==
    Pagination(getClassroomsFound(token, schoolId, isActive), page, limit)

getStudentsPage(token, schoolId, classroomId, isActive, page, limit) ==
    Paginate(getStudentsFound(token, schoolId, classroomId, isActive),
             page, limit)

getStudentsPagination(token, schoolId, classroomId, isActive, page, limit) ==
    Pagination(getStudentsFound(token, schoolId, classroomId, isActive),
               page, limit)

----------------------------------------------------------------------------
(* Middlewares (src/mws/__role.mw.js, src/unnamed/part_001) *)

\* req.decoded || req.body.__token
Decoded(r) == IF r.decoded # NoToken THEN r.decoded ELSE r.body.__token

AuthenticationRequired401 == Err("Authentication required", 401)
RoleDenied == Err("Access denied. Required role(s)", 403)
SchoolDenied ==
    Err("Access denied. You can only access resources from your assigned school.", 403)

\* requiredRoles.includes(userRole)
Includes(roles, role) == \E i \in 1..Len(roles) : roles[i] = role

\* an empty list of required roles denies
__roleResultStrict(r) ==
    IF Decoded(r) = NoToken THEN AuthenticationRequired401
    ELSE IF ~Includes(r.roles, Decoded(r).role) THEN RoleDenied
    ELSE NoError

\* the response the role middleware dispatches; NoError is next(decoded)
__roleResult(r) ==
    IF Decoded(r) = NoToken THEN AuthenticationRequired401
    ELSE IF Len(r.roles) = 0 THEN NoError
    ELSE IF ~Includes(r.roles, Decoded(r).role) THEN RoleDenied
    ELSE NoError

__role ==
    /\ last.op = "request"
    /\ last' = Res("__role", __roleResult(req))
    /\ UNCHANGED <<schools, classrooms, students, pending, users, req>>

\* id.toString(); null for an absent user school
toString(id) == IF id = NoId THEN <<"null">> ELSE <<"id", id>>

\* req.params?.schoolId || req.body?.schoolId || req.query?.schoolId
requestedSchoolId(r) ==
    IF r.params.schoolId # NoId THEN r.params.schoolId
    ELSE IF r.body.schoolId # NoId THEN r.body.schoolId
    ELSE r.query.schoolId

\* the response the school access middleware dispatches; NoError is
\* next(decoded)
__schoolAccessResult(r) ==
    IF Decoded(r) = NoToken THEN AuthenticationRequired401
    ELSE IF Decoded(r).role = "superadmin" THEN NoError
    ELSE IF Decoded(r).role = "school_admin"
    THEN IF requestedSchoolId(r) = NoId THEN NoError
         ELSE IF toString(requestedSchoolId(r)) # toString(Decoded(r).schoolId)
         THEN SchoolDenied
         ELSE NoError
    ELSE NoError

\* the request after the middleware: req.body.schoolId = userSchoolId when a
\* school admin names no school
__schoolAccessAfter(r) ==
    IF /\ Decoded(r) # NoToken
       /\ Decoded(r).role = "school_admin"
       /\ requestedSchoolId(r) = NoId
    THEN [r EXCEPT !.body.schoolId = Decoded(r).schoolId]
    ELSE r

__schoolAccess ==
    /\ last.op = "request"
    /\ req' = __schoolAccessAfter(req)
    /\ last' = Res("__schoolAccess", __schoolAccessResult(req))
    /\ UNCHANGED <<schools, classrooms, students, pending, users>>

\* the server hands the next request to the middleware stack
request(r) ==
    /\ req' = r
    /\ last' = Res("request", NoError)
    /\ UNCHANGED <<schools, classrooms, students, pending, users>>

----------------------------------------------------------------------------
(* Requests *)

AllTokens == {NoToken, Superadmin, [role |-> "teacher", schoolId |-> NoId]}
                \cup {SchoolAdmin(s) : s \in 1..MaxSchools}
\* the actors of the runs: the superadmin and the admin of the first school
Tokens == {Superadmin, SchoolAdmin(1)}
SchoolIds == 0..MaxSchools
ClassroomIds == 0..MaxClassrooms
StudentIds == 0..MaxStudents
SchoolNames == {"lincoln", "kennedy"}
ClassroomNames == {"room", "lab"}
Capacities == {1, 2}
Flags == {Undef, 0, 1}
Reasons == {NoReason, "moved"}

\* the empty store
InitEmpty ==
    /\ schools = <<>>
    /\ classrooms = <<>>
    /\ students = <<>>
    /\ last = Res("init", NoError)
    /\ pending = <<>>
    /\ users = <<>>
    /\ req = NoRequest

\* building the fixture: a superadmin creates the schools and the classrooms
NextSetup ==
    \/ \E n \in SchoolNames : createSchool(Superadmin, n)
    \/ \E sid \in 1..MaxSchools, n \in ClassroomNames, c \in Capacities :
            createClassroom(Superadmin, sid, n, c, NoYear)

SpecSetup == InitEmpty /\ [][NextSetup]_vars

Room(schoolId, name, capacity) ==
    [schoolId |-> schoolId, name |-> name, academicYear |-> NoYear,
     capacity |-> capacity, isActive |-> TRUE]

\* the stores SpecSetup builds that the enrolment runs start from: two
\* schools, "room" in the first one and "lab" in either
Fixtures ==
    {<< <<[name |-> "lincoln", isActive |-> TRUE],
          [name |-> "kennedy", isActive |-> TRUE]>>,
        <<Room(1, "room", 1), Room(s, "lab", c)>> >> :
        s \in 1..2, c \in {1}}

Init ==
    /\ \E f \in Fixtures : schools = f[1] /\ classrooms = f[2]
    /\ students = <<>>
    /\ last = Res("init", NoError)
    /\ pending = <<>>
    /\ users = <<>>
    /\ req = NoRequest

Next ==
    \/ \E t \in Tokens, id \in 1..MaxSchools : deleteSchool(t, id)
    \/ \E t \in Tokens, id \in 1..MaxClassrooms : getClassroom(t, id)
    \/ \E t \in Tokens, id \in 1..MaxClassrooms :
            updateClassroom(t, id, Unset, Undef, Unset, Undef)
    \/ \E t \in Tokens, id \in 1..MaxClassrooms : deleteClassroom(t, id)
    \/ \E t \in Tokens, sid \in SchoolIds, cid \in ClassroomIds :
            createStudent(t, sid, cid, TRUE)
    \/ \E t \in Tokens, id \in 1..MaxStudents : getStudent(t, id)
    \/ \E t \in Tokens, id \in 1..MaxStudents, cid \in ClassroomIds \cup {Undef} :
            updateStudent(t, id, cid, Undef)
    \/ \E t \in Tokens, id \in 1..MaxStudents : deleteStudent(t, id)
    \/ \E t \in Tokens, id \in 1..MaxStudents, sid \in SchoolIds,
          cid \in ClassroomIds : transferStudent(t, id, sid, cid, NoReason)

Spec == Init /\ [][Next]_vars

----------------------------------------------------------------------------
(* Properties *)

AccessDeniedClassroom == "Access denied. You can only access your assigned school."
AccessDeniedStudent ==
    "Access denied. You can only access students in your assigned school."

\* C1: in every reachable state, every student whose classroomId is set
\* references an existing classroom whose schoolId equals the student's
\* schoolId.
C1_ClassroomOfOwnSchool ==
    \A i \in 1..Len(students) :
        students[i].classroomId # NoId =>
            /\ Exists(classrooms, students[i].classroomId)
            /\ classrooms[students[i].classroomId].schoolId = students[i].schoolId

\* a student sits in a classroom after having been transferred from another
\* school
C1_Witness ==
    \E i \in 1..Len(students) :
        /\ students[i].classroomId # NoId
        /\ Len(students[i].transferHistory) > 0
        /\ students[i].transferHistory[1].fromSchool # students[i].schoolId

\* C2 as stated: a transferStudent call by a school_admin, whatever school
\* the token names, on any student, with a toSchoolId that differs from the
\* student's schoolId and any toClassroomId, returns a 403 error and leaves
\* the students unchanged.
C2_Original ==
    \A s \in 1..MaxSchools, id \in 1..Len(students),
       to \in 1..MaxSchools, cid \in ClassroomIds :
        to # students[id].schoolId =>
            /\ transferStudentResult(SchoolAdmin(s), id, to, cid, NoReason).code = 403
            /\ transferStudentAfter(SchoolAdmin(s), id, to, cid, NoReason) = students

\* C2 amended: the same for an active student (an inactive student is turned
\* down before any access check, with an error that carries no code).
C2_CrossSchoolByAdminForbidden ==
    \A s \in 1..MaxSchools, id \in 1..Len(students),
       to \in 1..MaxSchools, cid \in ClassroomIds :
        (students[id].isActive /\ to # students[id].schoolId) =>
            /\ transferStudentResult(SchoolAdmin(s), id, to, cid, NoReason).code = 403
            /\ transferStudentAfter(SchoolAdmin(s), id, to, cid, NoReason) = students

\* the admin of a student's own school has just been refused a transfer to
\* another school
C2_Witness ==
    /\ last.op = "transferStudent"
    /\ last.error = "Only superadmins can transfer students between schools"
    /\ last.code = 403
    /\ \E i \in 1..Len(students) :
          students[i].isActive /\ students[i].transferHistory = <<>>

\* C3: a school_admin of school S calling getClassroom, updateClassroom,
\* deleteClassroom, getStudent, updateStudent or deleteStudent on an existing
\* classroom or student of another school gets the 403 access-denied error
\* and the entity is unchanged; transferStudent by that admin never changes
\* that student; a superadmin never gets a 403 from these operations.
C3_ForeignSchoolDenied ==
    /\ \A s \in 1..MaxSchools, id \in 1..Len(classrooms) :
          classrooms[id].schoolId # s =>
              /\ getClassroomResult(SchoolAdmin(s), id)
                    = Err(AccessDeniedClassroom, 403)
              /\ \A n \in {Unset, "lab"}, c \in {Undef, 2}, a \in {Undef, 0} :
                    /\ updateClassroomResult(SchoolAdmin(s), id, n, c, Unset)
                          = Err(AccessDeniedClassroom, 403)
                    /\ updateClassroomAfter(SchoolAdmin(s), id, n, c, Unset, a)
                          = classrooms
              /\ deleteClassroomResult(SchoolAdmin(s), id)
                    = Err(AccessDeniedClassroom, 403)
              /\ deleteClassroomAfter(SchoolAdmin(s), id) = classrooms
    /\ \A s \in 1..MaxSchools, id \in 1..Len(students) :
          students[id].schoolId # s =>
              /\ getStudentResult(SchoolAdmin(s), id) = Err(AccessDeniedStudent, 403)
              /\ \A cid \in ClassroomIds \cup {Undef}, a \in {Undef, 0} :
                    /\ updateStudentResult(SchoolAdmin(s), id, cid, a)
                          = Err(AccessDeniedStudent, 403)
                    /\ updateStudentAfter(SchoolAdmin(s), id, cid, a) = students
              /\ deleteStudentResult(SchoolAdmin(s), id)
                    = Err(AccessDeniedStudent, 403)
              /\ deleteStudentAfter(SchoolAdmin(s), id) = students
              /\ \A to \in SchoolIds, cid \in ClassroomIds :
                    transferStudentAfter(SchoolAdmin(s), id, to, cid, NoReason)
                        = students
    /\ \A id \in ClassroomIds :
          /\ getClassroomResult(Superadmin, id).code # 403
          /\ updateClassroomResult(Superadmin, id, Unset, Undef, Unset).code # 403
          /\ deleteClassroomResult(Superadmin, id).code # 403
    /\ \A id \in StudentIds :
          /\ getStudentResult(Superadmin, id).code # 403
          /\ \A cid \in ClassroomIds \cup {Undef} :
                updateStudentResult(Superadmin, id, cid, Undef).code # 403
          /\ deleteStudentResult(Superadmin, id).code # 403

\* the admin of the first school has just been refused the deletion of an
\* active student of the second school
C3_Witness ==
    /\ last.op = "deleteStudent"
    /\ last.error = AccessDeniedStudent
    /\ last.code = 403
    /\ \E i \in 1..Len(students) : students[i].schoolId = 2 /\ students[i].isActive

\* the active students of a classroom, the active classrooms and students
\* of a school
ActiveIn(classroomId) ==
    {i \in 1..Len(students) :
        students[i].classroomId = classroomId /\ students[i].isActive}
ActiveClassroomsOf(schoolId) ==
    {i \in 1..Len(classrooms) :
        classrooms[i].schoolId = schoolId /\ classrooms[i].isActive}
ActiveStudentsOf(schoolId) ==
    {i \in 1..Len(students) :
        students[i].schoolId = schoolId /\ students[i].isActive}

\* the actors entitled to a school's classrooms and students
Entitled(token, schoolId) ==
    token = Superadmin \/ token = SchoolAdmin(schoolId)

\* a createStudent request into an active classroom of an active school
\* that an entitled actor addresses to the classroom's school
WellAddressed(token, schoolId, classroomId) ==
    LET room == classrooms[classroomId] IN
    /\ room.isActive
    /\ schools[room.schoolId].isActive
    /\ \/ token = Superadmin /\ schoolId = room.schoolId
       \/ token = SchoolAdmin(room.schoolId) /\ schoolId \in {NoId, room.schoolId}

\* C4: createStudent with a classroomId succeeds only if the classroom
\* holds fewer active students than its capacity, and then adds the student;
\* when the classroom is full no student is created, and a request that
\* passes the earlier checks gets the 'full capacity' error, whereas below
\* capacity it succeeds (capacity 1: the first enrolment succeeds, the
\* second fails).
C4_CapacityOnCreate ==
    \A t \in AllTokens, sid \in SchoolIds, cid \in 1..Len(classrooms) :
        LET n == Cardinality(ActiveIn(cid))
            r == createStudentResult(t, sid, cid, TRUE)
            after == createStudentAfter(t, sid, cid, TRUE)
        IN
        /\ r = NoError =>
              /\ n < classrooms[cid].capacity
              /\ after = Append(students,
                                [schoolId |-> classrooms[cid].schoolId,
                                 classroomId |-> cid, isActive |-> TRUE,
                                 transferHistory |-> <<>>])
        /\ n >= classrooms[cid].capacity => r # NoError /\ after = students
        /\ WellAddressed(t, sid, cid) =>
              IF n < classrooms[cid].capacity
              THEN r = NoError
              ELSE r = Err("Classroom is at full capacity", 0)

\* the second enrolment into a classroom of capacity 1 has just failed
C4_Witness ==
    /\ last.op = "createStudent"
    /\ last.error = "Classroom is at full capacity"
    /\ Len(students) = 1
    /\ students[1].classroomId # NoId
    /\ classrooms[students[1].classroomId].capacity = 1

\* C5: deleteSchool on an active school with an active classroom or an
\* active student is rejected for every caller, the school stays active and
\* the superadmin's error carries both counts; with no active classroom and
\* no active student left the superadmin's call succeeds and sets isActive
\* to false.
C5_DeleteSchoolGuard ==
    \A id \in 1..Len(schools) :
        schools[id].isActive =>
            LET nc == Cardinality(ActiveClassroomsOf(id))
                ns == Cardinality(ActiveStudentsOf(id))
            IN
            IF nc > 0 \/ ns > 0
            THEN /\ \A t \in AllTokens :
                       /\ deleteSchoolResult(t, id) # NoError
                       /\ deleteSchoolAfter(t, id) = schools
                 /\ deleteSchoolResponse(Superadmin, id)
                       = [op |-> "deleteSchool", error |-> HasActiveChildren,
                          code |-> 0, activeClassrooms |-> nc,
                          activeStudents |-> ns]
            ELSE /\ deleteSchoolResult(Superadmin, id) = NoError
                 /\ deleteSchoolAfter(Superadmin, id)
                       = [schools EXCEPT ![id].isActive = FALSE]

\* a school that had a student has just been deleted, the student being
\* unenrolled
C5_Witness ==
    /\ last.op = "deleteSchool"
    /\ last.error = Ok
    /\ \E id \in 1..Len(schools) :
          /\ ~schools[id].isActive
          /\ \E i \in 1..Len(students) :
                students[i].schoolId = id /\ ~students[i].isActive

C7_TransferAllOrNothing ==
    [][last'.op = "transferStudent" =>
        IF last'.error # Ok
        THEN students' = students
        ELSE /\ Len(students') = Len(students)
             /\ \E id \in 1..Len(students) :
                  LET old == students[id]
                      new == students'[id]
                      n == Len(old.transferHistory)
                  IN
                  /\ \A j \in 1..Len(students) : j # id => students'[j] = students[j]
                  /\ new.isActive = old.isActive
                  /\ Len(new.transferHistory) = n + 1
                  /\ SubSeq(new.transferHistory, 1, n) = old.transferHistory
                  /\ new.transferHistory[n + 1].fromSchool = old.schoolId
                  /\ new.transferHistory[n + 1].fromClassroom = old.classroomId
                  /\ new.transferHistory[n + 1].toSchool = new.schoolId
                  /\ new.transferHistory[n + 1].toClassroom = new.classroomId
    ]_vars

\* a transfer has just been refused because the target classroom is full
C7_Witness ==
    /\ last.op = "transferStudent"
    /\ last.error = "Target classroom is at full capacity"
    /\ \A i \in 1..Len(students) : students[i].transferHistory = <<>>

\* C8 as stated: transferStudent on an inactive student fails with 'Cannot
\* transfer an inactive student' for every actor role and every combination
\* of toSchoolId and toClassroomId, and the students are unchanged.
C8_InactiveAlwaysInvalidState ==
    \A t \in AllTokens \ {NoToken}, id \in 1..Len(students),
       to \in SchoolIds, cid \in ClassroomIds :
        ~students[id].isActive =>
            /\ transferStudentResult(t, id, to, cid, NoReason).error
                  = "Cannot transfer an inactive student"
            /\ transferStudentAfter(t, id, to, cid, NoReason) = students

\* C9: a successful transferStudent sets classroomId to toClassroomId, null
\* when none is given; a superadmin's transfer of an active student without
\* classroom to another active school, with toSchoolId only, succeeds and
\* yields that schoolId, no classroom and a history one entry longer whose
\* last entry goes from the old school to the new one.
C9_TransferSetsClassroom ==
    \A id \in 1..Len(students), to \in SchoolIds, cid \in ClassroomIds :
        LET old == students[id]
            new == transferStudentAfter(Superadmin, id, to, cid, NoReason)[id]
            n == Len(old.transferHistory)
        IN
        /\ \A t \in AllTokens :
              transferStudentResult(t, id, to, cid, NoReason) = NoError =>
                  transferStudentAfter(t, id, to, cid, NoReason)[id].classroomId
                      = cid
        /\ ( /\ old.isActive
             /\ old.classroomId = NoId
             /\ to # NoId
             /\ to # old.schoolId
             /\ Exists(schools, to)
             /\ schools[to].isActive
             /\ cid = NoId )
           => /\ transferStudentResult(Superadmin, id, to, cid, NoReason) = NoError
              /\ new.schoolId = to
              /\ new.classroomId = NoId
              /\ Len(new.transferHistory) = n + 1
              /\ SubSeq(new.transferHistory, 1, n) = old.transferHistory
              /\ new.transferHistory[n + 1].fromSchool = old.schoolId
              /\ new.transferHistory[n + 1].toSchool = to

\* a student without classroom has just been transferred to another school
C9_Witness ==
    /\ last.op = "transferStudent"
    /\ last.error = Ok
    /\ \E i \in 1..Len(students) :
          /\ students[i].classroomId = NoId
          /\ Len(students[i].transferHistory) = 1
          /\ students[i].transferHistory[1].fromClassroom = NoId
          /\ students[i].transferHistory[1].toClassroom = NoId
          /\ students[i].transferHistory[1].fromSchool # students[i].schoolId
          /\ students[i].transferHistory[1].toSchool = students[i].schoolId

\* C10: when a deleteSchool, deleteClassroom or deleteStudent call succeeds
\* it sets isActive to false, and the same call repeated right after it
\* returns the already-inactive error and leaves the stored state as the
\* first call left it.
C10_SecondDeleteRejected ==
    [][/\ last'.op = "deleteSchool" =>
            \A t \in AllTokens, id \in 1..Len(schools) :
                ( /\ deleteSchoolResult(t, id) = NoError
                  /\ schools' = deleteSchoolAfter(t, id) )
                => /\ schools[id].isActive /\ ~schools'[id].isActive
                   /\ deleteSchoolResult(t, id)'
                         = Err("School is already inactive", 0)
                   /\ deleteSchoolAfter(t, id)' = schools'
       /\ last'.op = "deleteClassroom" =>
            \A t \in AllTokens, id \in 1..Len(classrooms) :
                ( /\ deleteClassroomResult(t, id) = NoError
                  /\ classrooms' = deleteClassroomAfter(t, id) )
                => /\ classrooms[id].isActive /\ ~classrooms'[id].isActive
                   /\ deleteClassroomResult(t, id)'
                         = Err("Classroom is already inactive", 0)
                   /\ deleteClassroomAfter(t, id)' = classrooms'
       /\ last'.op = "deleteStudent" =>
            \A t \in AllTokens, id \in 1..Len(students) :
                ( /\ deleteStudentResult(t, id) = NoError
                  /\ students' = deleteStudentAfter(t, id) )
                => /\ students[id].isActive /\ ~students'[id].isActive
                   /\ deleteStudentResult(t, id)'
                         = Err("Student is already unenrolled", 0)
                   /\ deleteStudentAfter(t, id)' = students'
    ]_vars

\* a student has just been unenrolled and a second deleteStudent call of
\* the same actor would now be refused
C10_Witness ==
    /\ last.op = "deleteStudent"
    /\ last.error = Ok
    /\ \E i \in 1..Len(students) :
          /\ ~students[i].isActive
          /\ deleteStudentResult(Superadmin, i).error
                = "Student is already unenrolled"

----------------------------------------------------------------------------
(* School administration: every School method, called by every kind of    *)
(* actor, from the empty store                                            *)

Teacher == [role |-> "teacher", schoolId |-> NoId]
SchoolActors == {NoToken, Superadmin, SchoolAdmin(1), Teacher}
SchoolNamesTried == {"lincoln", "LINCOLN", "hill(n)"}

NextSchools ==
    \/ \E t \in SchoolActors, n \in SchoolNamesTried : createSchool(t, n)
    \/ \E t \in SchoolActors, a \in Flags : getSchools(t, a)
    \/ \E t \in SchoolActors, id \in 1..MaxSchools : getSchool(t, id)
    \/ \E t \in SchoolActors, id \in 1..MaxSchools,
          n \in SchoolNamesTried \cup {Unset}, a \in Flags :
            updateSchool(t, id, n, a)
    \/ \E t \in SchoolActors, id \in 1..MaxSchools : deleteSchool(t, id)

SpecSchools == InitEmpty /\ [][NextSchools]_vars

OnlySuperadmins ==
    Err("Access denied. Only superadmins can manage schools.", 403)

\* C11: createSchool, getSchools, getSchool, updateSchool and deleteSchool
\* called by an actor whose role is not superadmin return the 403 'Only
\* superadmins can manage schools' error, list nothing and leave every
\* school unchanged.
C11_SchoolsForSuperadminsOnly ==
    \A t \in AllTokens \ {NoToken, Superadmin} :
        /\ \A n \in SchoolNamesTried :
              /\ createSchoolResult(t, n) = OnlySuperadmins
              /\ createSchoolAfter(t, n) = schools
        /\ getSchoolsResult(t) = OnlySuperadmins
        /\ \A a \in Flags : getSchoolsFound(t, a) = {}
        /\ \A id \in SchoolIds :
              /\ getSchoolResult(t, id) = OnlySuperadmins
              /\ \A n \in SchoolNamesTried \cup {Unset}, a \in Flags :
                    /\ updateSchoolResult(t, id, n) = OnlySuperadmins
                    /\ updateSchoolAfter(t, id, n, a) = schools
              /\ deleteSchoolResult(t, id) = OnlySuperadmins
              /\ deleteSchoolAfter(t, id) = schools

\* an actor who is no superadmin has just been refused an update of an
\* existing school
C11_Witness ==
    /\ last.op = "updateSchool"
    /\ last.code = 403
    /\ last.error = "Access denied. Only superadmins can manage schools."
    /\ Len(schools) > 0

\* the same name up to letter case
SameNameIgnoringCase(a, b) ==
    /\ Len(Chars(a)) = Len(Chars(b))
    /\ \A i \in 1..Len(Chars(a)) : LowerChar(Chars(a)[i]) = LowerChar(Chars(b)[i])

\* C15: whenever an active school has the requested name up to letter
\* case, createSchool by a superadmin returns the duplicate-name error and
\* creates no school, and so does an updateSchool that changes the name of
\* another school to it.
C15_DuplicateSchoolNameRejected ==
    \A n \in SchoolNamesTried :
        /\ (\E i \in 1..Len(schools) :
               schools[i].isActive /\ SameNameIgnoringCase(schools[i].name, n))
           => /\ createSchoolResult(Superadmin, n)
                    = Err("A school with this name already exists", 0)
              /\ createSchoolAfter(Superadmin, n) = schools
        /\ \A id \in 1..Len(schools) :
              ( /\ n # schools[id].name
                /\ \E i \in 1..Len(schools) :
                      /\ i # id
                      /\ schools[i].isActive
                      /\ SameNameIgnoringCase(schools[i].name, n) )
              => /\ updateSchoolResult(Superadmin, id, n)
                       = Err("A school with this name already exists", 0)
                 /\ updateSchoolAfter(Superadmin, id, n, Undef) = schools

----------------------------------------------------------------------------
(* Tenant scoping: creating and listing classrooms and students, by every *)
(* kind of actor, in a store that holds the two schools                   *)

ScopeActors == {NoToken, Superadmin} \cup {SchoolAdmin(s) : s \in 1..MaxSchools}

InitSchoolsOnly ==
    /\ schools = <<[name |-> "lincoln", isActive |-> TRUE],
                   [name |-> "kennedy", isActive |-> TRUE]>>
    /\ classrooms = <<>>
    /\ students = <<>>
    /\ last = Res("init", NoError)
    /\ pending = <<>>
    /\ users = <<>>
    /\ req = NoRequest

NextScope ==
    \/ \E t \in ScopeActors, sid \in SchoolIds, n \in ClassroomNames :
            createClassroom(t, sid, n, 1, NoYear)
    \/ \E t \in ScopeActors, sid \in SchoolIds, a \in Flags :
            getClassrooms(t, sid, a)
    \/ \E id \in 1..MaxClassrooms : deleteClassroom(Superadmin, id)
    \/ \E t \in ScopeActors, sid \in SchoolIds, cid \in ClassroomIds :
            createStudent(t, sid, cid, TRUE)
    \/ \E t \in ScopeActors, sid \in SchoolIds, cid \in ClassroomIds, a \in Flags :
            getStudents(t, sid, cid, a)
    \/ \E id \in 1..MaxStudents : deleteStudent(Superadmin, id)

SpecScope == InitSchoolsOnly /\ [][NextScope]_vars

AuthenticationRequired == Err("Authentication required", 401)

\* C12: every School, Classroom and Student operation called without a token
\* returns the 401 'Authentication required' error, before any other check
\* (whatever its other arguments), without throwing, and changes nothing.
C12_NoTokenIs401 ==
    /\ \A n \in SchoolNames \cup {NoName} :
          /\ createSchoolResult(NoToken, n) = AuthenticationRequired
          /\ createSchoolAfter(NoToken, n) = schools
    /\ getSchoolsResult(NoToken) = AuthenticationRequired
    /\ \A id \in SchoolIds :
          /\ getSchoolResult(NoToken, id) = AuthenticationRequired
          /\ \A n \in SchoolNames \cup {Unset} :
                /\ updateSchoolResult(NoToken, id, n) = AuthenticationRequired
                /\ updateSchoolAfter(NoToken, id, n, 0) = schools
          /\ deleteSchoolResult(NoToken, id) = AuthenticationRequired
          /\ deleteSchoolAfter(NoToken, id) = schools
          /\ \A n \in ClassroomNames \cup {NoName} :
                /\ createClassroomResult(NoToken, id, n, 1, NoYear)
                      = AuthenticationRequired
                /\ createClassroomAfter(NoToken, id, n, 1, NoYear) = classrooms
          /\ getClassroomsResult(NoToken, id) = AuthenticationRequired
          /\ getStudentsResult(NoToken, id) = AuthenticationRequired
          /\ \A cid \in ClassroomIds, v \in BOOLEAN :
                /\ createStudentResult(NoToken, id, cid, v) = AuthenticationRequired
                /\ createStudentAfter(NoToken, id, cid, v) = students
    /\ \A id \in ClassroomIds :
          /\ getClassroomResult(NoToken, id) = AuthenticationRequired
          /\ updateClassroomResult(NoToken, id, Unset, 1, Unset)
                = AuthenticationRequired
          /\ updateClassroomAfter(NoToken, id, Unset, 1, Unset, 0) = classrooms
          /\ deleteClassroomResult(NoToken, id) = AuthenticationRequired
          /\ deleteClassroomAfter(NoToken, id) = classrooms
    /\ \A id \in StudentIds :
          /\ getStudentResult(NoToken, id) = AuthenticationRequired
          /\ \A cid \in ClassroomIds :
                /\ updateStudentResult(NoToken, id, cid, 0) = AuthenticationRequired
                /\ updateStudentAfter(NoToken, id, cid, 0) = students
          /\ deleteStudentResult(NoToken, id) = AuthenticationRequired
          /\ deleteStudentAfter(NoToken, id) = students
          /\ \A sid \in SchoolIds, cid \in ClassroomIds :
                /\ transferStudentResult(NoToken, id, sid, cid, NoReason)
                      = AuthenticationRequired
                /\ transferStudentAfter(NoToken, id, sid, cid, NoReason) = students

\* the classrooms / students of a school that pass the isActive filter
ClassroomsOfSchool(schoolId, isActive) ==
    {i \in 1..Len(classrooms) :
        /\ classrooms[i].schoolId = schoolId
        /\ isActive # Undef => classrooms[i].isActive = (isActive = 1)}
StudentsOfSchool(schoolId, classroomId, isActive) ==
    {i \in 1..Len(students) :
        /\ students[i].schoolId = schoolId
        /\ classroomId # NoId => students[i].classroomId = classroomId
        /\ isActive # Undef => students[i].isActive = (isActive = 1)}

\* for the admin of school s: a create with schoolId absent or equal to s
\* that succeeds stores a record of school s; with another schoolId it
\* returns 403 and stores nothing
CreatesScoped(s, sid) ==
    LET t == SchoolAdmin(s) IN
    /\ \A n \in ClassroomNames :
          LET r == createClassroomResult(t, sid, n, 1, NoYear)
              after == createClassroomAfter(t, sid, n, 1, NoYear)
          IN IF sid \in {NoId, s}
             THEN /\ r.code # 403
                  /\ r = NoError =>
                        /\ Len(after) = Len(classrooms) + 1
                        /\ after[Len(after)].schoolId = s
             ELSE r = Err(AccessDeniedClassroom, 403) /\ after = classrooms
    /\ \A cid \in ClassroomIds :
          LET r == createStudentResult(t, sid, cid, TRUE)
              after == createStudentAfter(t, sid, cid, TRUE)
          IN IF sid \in {NoId, s}
             THEN /\ r.code # 403
                  /\ r = NoError =>
                        /\ Len(after) = Len(students) + 1
                        /\ after[Len(after)].schoolId = s
             ELSE r = Err(AccessDeniedStudent, 403) /\ after = students

\* C13 as stated: for a school_admin of school S, createClassroom,
\* getClassrooms, createStudent and getStudents use S as effective school when
\* schoolId is absent or equals S, and return a 403 error when the request
\* names another school.
C13_Original ==
    \A s \in 1..MaxSchools, sid \in SchoolIds :
        /\ CreatesScoped(s, sid)
        /\ IF sid \in {NoId, s}
           THEN /\ getClassroomsResult(SchoolAdmin(s), sid) = NoError
                /\ getStudentsResult(SchoolAdmin(s), sid) = NoError
           ELSE /\ getClassroomsResult(SchoolAdmin(s), sid).code = 403
                /\ getStudentsResult(SchoolAdmin(s), sid).code = 403

\* C13: for a school_admin of school S, createClassroom and createStudent use
\* S as effective school when schoolId is absent or equals S and return a 403
\* error when the request names another school; getClassrooms and getStudents
\* succeed and list the records of S whatever schoolId the request names.
C13_CreateRefusesListIgnores ==
    \A s \in 1..MaxSchools, sid \in SchoolIds :
        /\ CreatesScoped(s, sid)
        /\ getClassroomsResult(SchoolAdmin(s), sid) = NoError
        /\ getStudentsResult(SchoolAdmin(s), sid) = NoError
        /\ \A a \in Flags :
              /\ getClassroomsFound(SchoolAdmin(s), sid, a)
                    = ClassroomsOfSchool(s, a)
              /\ \A cid \in ClassroomIds :
                    getStudentsFound(SchoolAdmin(s), sid, cid, a)
                        = StudentsOfSchool(s, cid, a)

\* a school admin has just been refused the enrolment of a student in the
\* other school, and both schools have classrooms
C13_Witness ==
    /\ last.op = "createStudent"
    /\ last.error = AccessDeniedStudent
    /\ last.code = 403
    /\ \A s \in 1..MaxSchools : ClassroomsOfSchool(s, Undef) # {}

\* C14: getClassrooms and getStudents called by the school_admin of school S
\* return only records whose schoolId is S, for every value of the schoolId,
\* classroomId and isActive filters.
C14_ListsOnlyOwnSchool ==
    \A s \in 1..MaxSchools, sid \in SchoolIds, a \in Flags :
        /\ \A i \in getClassroomsFound(SchoolAdmin(s), sid, a) :
              classrooms[i].schoolId = s
        /\ \A cid \in ClassroomIds :
              \A i \in getStudentsFound(SchoolAdmin(s), sid, cid, a) :
                  students[i].schoolId = s

\* a listing has just succeeded while both schools have students, one of
\* them unenrolled
C14_Witness ==
    /\ last.op = "getStudents"
    /\ last.error = Ok
    /\ \A s \in 1..MaxSchools : StudentsOfSchool(s, NoId, Undef) # {}
    /\ \E i \in 1..Len(students) : ~students[i].isActive

----------------------------------------------------------------------------
(* Classroom names: a superadmin creates and deletes classrooms with      *)
(* names that differ in letter case, in the two schools                   *)

ClassroomNamesTried == {"room", "ROOM", "lab(b)", "LAB(B)"}
AcademicYears == {NoYear, "2024-2025"}

NextRooms ==
    \/ \E sid \in 1..MaxSchools, n \in ClassroomNamesTried, y \in AcademicYears :
            createClassroom(Superadmin, sid, n, 1, y)
    \/ \E id \in 1..MaxClassrooms : deleteClassroom(Superadmin, id)

SpecRooms == InitSchoolsOnly /\ [][NextRooms]_vars

DuplicateClassroom ==
    {Err("A classroom with this name already exists in this school", 0),
     Err("A classroom with this name already exists in this school for the same academic year", 0)}

\* C17: createClassroom is rejected with the duplicate error, and creates
\* nothing, whenever an active classroom with the same name up to letter
\* case, the same schoolId and the same academicYear exists; when no
\* classroom of the school has the name, it is accepted, whatever the other
\* school holds.
C17_DuplicateClassroomRejected ==
    \A sid \in 1..MaxSchools, n \in ClassroomNamesTried, y \in AcademicYears :
        /\ (\E i \in 1..Len(classrooms) :
               /\ classrooms[i].isActive
               /\ classrooms[i].schoolId = sid
               /\ classrooms[i].academicYear = y
               /\ SameNameIgnoringCase(classrooms[i].name, n))
           => /\ createClassroomResult(Superadmin, sid, n, 1, y)
                    \in DuplicateClassroom
              /\ createClassroomAfter(Superadmin, sid, n, 1, y) = classrooms
        /\ (\A i \in 1..Len(classrooms) :
               classrooms[i].schoolId = sid
                   => ~SameNameIgnoringCase(classrooms[i].name, n))
           => createClassroomResult(Superadmin, sid, n, 1, y) = NoError

----------------------------------------------------------------------------
(* Activity flags: a superadmin enrols, updates and unenrols students and *)
(* updates and deletes classrooms and schools, isActive included          *)

NextActive ==
    \/ \E sid \in 1..MaxSchools, cid \in ClassroomIds :
            createStudent(Superadmin, sid, cid, TRUE)
    \/ \E id \in 1..MaxStudents, cid \in ClassroomIds \cup {Undef}, a \in Flags :
            updateStudent(Superadmin, id, cid, a)
    \/ \E id \in 1..MaxStudents : deleteStudent(Superadmin, id)
    \/ \E id \in 1..MaxClassrooms, c \in Capacities \cup {Undef}, a \in Flags :
            updateClassroom(Superadmin, id, Unset, c, Unset, a)
    \/ \E id \in 1..MaxClassrooms : deleteClassroom(Superadmin, id)
    \/ \E id \in 1..MaxSchools, a \in Flags :
            updateSchool(Superadmin, id, Unset, a)
    \/ \E id \in 1..MaxSchools : deleteSchool(Superadmin, id)

SpecActive == Init /\ [][NextActive]_vars

\* C16: an updateClassroom that sets capacity to a value lower than the
\* classroom's current count of active students is rejected with the
\* capacity error and leaves the classroom unchanged; a reduction to a value
\* greater than or equal to that count is accepted and stored.
C16_CapacityNotBelowCount ==
    \A id \in 1..Len(classrooms), c \in Capacities :
        LET n == CountActiveStudents(students, id)
            r == updateClassroomResult(Superadmin, id, Unset, c, Unset)
            after == updateClassroomAfter(Superadmin, id, Unset, c, Unset, Undef)
        IN
        /\ c < n =>
              /\ r = Err("Cannot reduce capacity below current student count", 0)
              /\ after = classrooms
        /\ (c >= n /\ c < classrooms[id].capacity) =>
              /\ r = NoError
              /\ after[id].capacity = c

\* C18: in every reachable state, the number of active students of each
\* classroom is at most the classroom's capacity.
C18_CapacityNeverExceeded ==
    \A id \in 1..Len(classrooms) :
        CountActiveStudents(students, id) <= classrooms[id].capacity

\* C19: in every reachable state, a school that is not active owns no active
\* classroom and no active student.
C19_InactiveSchoolHasNoActiveChild ==
    \A sid \in 1..Len(schools) :
        ~schools[sid].isActive =>
            /\ \A i \in 1..Len(classrooms) :
                  classrooms[i].schoolId = sid => ~classrooms[i].isActive
            /\ \A i \in 1..Len(students) :
                  students[i].schoolId = sid => ~students[i].isActive

\* C20: in every reachable state, the classroom of every active student
\* that has one is active.
C20_ActiveStudentInActiveClassroom ==
    \A i \in 1..Len(students) :
        (students[i].isActive /\ students[i].classroomId # NoId) =>
            classrooms[students[i].classroomId].isActive

\* C21: in every state reached by createSchool, updateSchool and
\* deleteSchool calls, no two active schools have names that are equal up to
\* letter case.
C21_ActiveSchoolNamesDistinct ==
    \A i, j \in 1..Len(schools) :
        (i # j /\ schools[i].isActive /\ schools[j].isActive)
            => ~SameNameIgnoringCase(schools[i].name, schools[j].name)

----------------------------------------------------------------------------
(* Concurrent requests on students: a superadmin's enrolments, classroom  *)
(* changes and transfers, interleaved between their checks and their save *)

InitConcurrent ==
    /\ schools = <<[name |-> "lincoln", isActive |-> TRUE],
                   [name |-> "kennedy", isActive |-> TRUE]>>
    /\ classrooms = <<Room(1, "room", 1), Room(2, "lab", 1)>>
    /\ students = <<>>
    /\ last = Res("init", NoError)
    /\ pending = <<>>
    /\ users = <<>>
    /\ req = NoRequest

NextConcurrent ==
    \/ \E sid \in 1..MaxSchools, cid \in ClassroomIds :
            createStudentRead(Superadmin, sid, cid)
    \/ \E id \in 1..MaxStudents, cid \in ClassroomIds :
            updateStudentRead(Superadmin, id, cid, Undef)
    \/ \E id \in 1..MaxStudents, sid \in SchoolIds, cid \in ClassroomIds :
            transferStudentRead(Superadmin, id, sid, cid, NoReason)
    \/ \E i \in 1..MaxRequests : save(i)

SpecConcurrent == InitConcurrent /\ [][NextConcurrent]_vars

\* C22: when an updateStudent that changes classroomId and a cross-school
\* transferStudent on the same student interleave between their reads and
\* their saves, once both have completed every student's classroom still
\* belongs to the student's school.
C22_ConsistentAfterInterleaving ==
    pending = <<>> =>
        \A i \in 1..Len(students) :
            students[i].classroomId # NoId =>
                classrooms[students[i].classroomId].schoolId = students[i].schoolId

\* C23: the capacity is checked before the write and not again: every
\* createStudent whose check has passed is stored when it completes, whatever
\* the classroom's count has become, so that two enrolments into the same
\* classroom started at capacity-1 both succeed and leave capacity+1 active
\* students.
C23_CheckThenActEnrolment ==
    [][\A i \in 1..Len(pending) :
          ( /\ pending[i].op = "createStudent"
            /\ pending' = Without(pending, i) )
          => /\ last' = Res("createStudent", NoError)
             /\ students' = Append(students, pending[i].doc)]_vars

\* both enrolments have completed successfully and a classroom holds one
\* active student more than its capacity
C23_Witness ==
    /\ pending = <<>>
    /\ last = Res("createStudent", NoError)
    /\ \E c \in 1..Len(classrooms) :
          /\ CountActiveStudents(students, c) = classrooms[c].capacity + 1
          /\ \A i \in 1..Len(students) :
                students[i].classroomId = c /\ students[i].transferHistory = <<>>

\* C24: transferStudent checks that the student exists and is active before
\* it requires a target: a call that names a missing or an inactive student
\* and gives neither toSchoolId nor toClassroomId returns the not-found or
\* the inactive-student error.
C24_StudentCheckedBeforeTarget ==
    \A id \in 1..MaxStudents :
        LET r == transferStudentResult(Superadmin, id, NoId, NoId, NoReason) IN
        /\ ~Exists(students, id) => r.error = "Student not found"
        /\ (Exists(students, id) /\ ~students[id].isActive)
              => r.error = "Cannot transfer an inactive student"

----------------------------------------------------------------------------
(* Student records: enrolments, updates, unenrolments and transfers, and *)
(* classroom deletions, by the superadmin and the admin of the first     *)
(* school, one call at a time                                            *)

NextRecords ==
    \/ \E t \in Tokens, sid \in SchoolIds, cid \in ClassroomIds :
            createStudent(t, sid, cid, TRUE)
    \/ \E t \in Tokens, id \in 1..MaxStudents, cid \in ClassroomIds \cup {Undef} :
            updateStudent(t, id, cid, Undef)
    \/ \E t \in Tokens, id \in 1..MaxStudents : deleteStudent(t, id)
    \/ \E t \in Tokens, id \in 1..MaxClassrooms : deleteClassroom(t, id)
    \/ \E t \in Tokens, id \in 1..MaxStudents, sid \in SchoolIds,
          cid \in ClassroomIds, reason \in {Unset, "moved"} :
            transferStudent(t, id, sid, cid, reason)

SpecRecords == InitConcurrent /\ [][NextRecords]_vars

\* C25 as stated: a transferStudent call by a school_admin on an existing
\* student of another school, with a target, returns the same 403
\* access-denied error whether that student is active or inactive.
C25_Original ==
    \A s \in 1..MaxSchools, id \in 1..Len(students),
       to \in SchoolIds, cid \in ClassroomIds :
        (students[id].schoolId # s /\ (to # NoId \/ cid # NoId))
            => transferStudentResult(SchoolAdmin(s), id, to, cid, NoReason)
                  = Err(AccessDeniedStudent, 403)

\* C25: a transferStudent call by a school_admin on an existing student of
\* another school, with a target, returns the 403 access-denied error when
\* that student is active and the inactive-student error, without code, when
\* the student is inactive; the students are unchanged in both cases.
C25_ForeignStudentStateShows ==
    \A s \in 1..MaxSchools, id \in 1..Len(students),
       to \in SchoolIds, cid \in ClassroomIds :
        (students[id].schoolId # s /\ (to # NoId \/ cid # NoId))
            => /\ transferStudentResult(SchoolAdmin(s), id, to, cid, NoReason)
                     = IF students[id].isActive
                       THEN Err(AccessDeniedStudent, 403)
                       ELSE Err("Cannot transfer an inactive student", 0)
               /\ transferStudentAfter(SchoolAdmin(s), id, to, cid, NoReason)
                     = students

\* a transfer has just been refused with 403 while the second school has an
\* active and an unenrolled student
C25_Witness ==
    /\ last.op = "transferStudent"
    /\ last.code = 403
    /\ \E i, j \in 1..Len(students) :
          /\ students[i].schoolId = 2 /\ students[i].isActive
          /\ students[j].schoolId = 2 /\ ~students[j].isActive

\* C26: a successful transferStudent with a toClassroomId places the student
\* in that classroom, which exists, is active, has fewer active students than
\* its capacity and belongs to the effective target school (toSchoolId when
\* given, otherwise the student's school); every other toClassroomId is
\* rejected and leaves the students unchanged.
C26_TransferTargetClassroom ==
    \A t \in ScopeActors \ {NoToken}, id \in 1..Len(students), to \in SchoolIds,
       cid \in ClassroomIds \ {NoId} :
        LET r == transferStudentResult(t, id, to, cid, NoReason)
            after == transferStudentAfter(t, id, to, cid, NoReason)
            fits == /\ Exists(classrooms, cid)
                    /\ classrooms[cid].isActive
                    /\ CountActiveStudents(students, cid) < classrooms[cid].capacity
                    /\ classrooms[cid].schoolId
                          = IF to # NoId THEN to ELSE students[id].schoolId
        IN
        /\ r = NoError => (fits /\ after[id].classroomId = cid)
        /\ ~fits => (r # NoError /\ after = students)

\* a student has just been transferred into a classroom of the other school
C26_Witness ==
    /\ last.op = "transferStudent"
    /\ last.error = Ok
    /\ \E i \in 1..Len(students) :
          LET h == students[i].transferHistory IN
          /\ Len(h) > 0
          /\ h[Len(h)].toClassroom # NoId
          /\ h[Len(h)].toClassroom = students[i].classroomId
          /\ h[Len(h)].fromSchool # h[Len(h)].toSchool

\* the calls' effect on the histories: a successful transfer appends the one
\* record of the move, a failed one and every updateStudent and
\* deleteStudent leave each history as it is
HistoriesUnder(after) ==
    /\ Len(after) = Len(students)
    /\ \A i \in 1..Len(students) :
          after[i].transferHistory = students[i].transferHistory

C27_Calls ==
    \A t \in Tokens, id \in 1..Len(students) :
        /\ \A to \in SchoolIds, cid \in ClassroomIds,
              reason \in {Unset, NoReason, "moved"} :
              LET r == transferStudentResult(t, id, to, cid, reason)
                  after == transferStudentAfter(t, id, to, cid, reason)
              IN
              IF r = NoError
              THEN /\ after[id].transferHistory
                         = Append(students[id].transferHistory,
                                  [fromSchool |-> students[id].schoolId,
                                   fromClassroom |-> students[id].classroomId,
                                   toSchool |-> IF to # NoId THEN to
                                                ELSE students[id].schoolId,
                                   toClassroom |-> cid,
                                   reason |-> IF reason = "moved" THEN "moved"
                                              ELSE ""])
                   /\ \A i \in 1..Len(students) \ {id} : after[i] = students[i]
              ELSE after = students
        /\ \A cid \in ClassroomIds \cup {Undef}, a \in Flags :
              HistoriesUnder(updateStudentAfter(t, id, cid, a))
        /\ HistoriesUnder(deleteStudentAfter(t, id))

\* C27: transferHistory is append-only: a successful transferStudent appends
\* exactly one record (from the student's school and classroom before the
\* transfer, to toSchoolId or the unchanged school, to toClassroomId or null,
\* with the reason or the empty string), a failed transfer appends nothing,
\* and updateStudent and deleteStudent leave every history as it is.
C27_HistoryAppendOnly ==
    /\ []C27_Calls
    /\ [][\A i \in 1..Len(students) :
             LET old == students[i].transferHistory
                 new == students'[i].transferHistory
             IN
             \/ new = old
             \/ /\ last'.op = "transferStudent"
                /\ last'.error = Ok
                /\ Len(new) = Len(old) + 1
                /\ SubSeq(new, 1, Len(old)) = old]_vars

\* a student that was transferred has just been updated
C27_Witness ==
    /\ last.op = "updateStudent"
    /\ last.error = Ok
    /\ \E i \in 1..Len(students) :
          /\ Len(students[i].transferHistory) = 1
          /\ students[i].transferHistory[1].toClassroom # students[i].classroomId

\* what the calls do to the schoolId of the students
C28_Calls ==
    /\ \A t \in AllTokens, sid \in SchoolIds, cid \in ClassroomIds :
          LET after == createStudentAfter(t, sid, cid, TRUE) IN
          /\ SubSeq(after, 1, Len(students)) = students
          /\ createStudentResult(t, sid, cid, TRUE) = NoError
                => after[Len(after)].schoolId
                      = IF t = Superadmin THEN sid ELSE t.schoolId
    /\ \A t \in AllTokens, id \in 1..Len(students) :
          /\ \A cid \in ClassroomIds \cup {Undef}, a \in Flags :
                \A i \in 1..Len(students) :
                    updateStudentAfter(t, id, cid, a)[i].schoolId
                        = students[i].schoolId
          /\ \A i \in 1..Len(students) :
                deleteStudentAfter(t, id)[i].schoolId = students[i].schoolId
          /\ \A to \in SchoolIds, cid \in ClassroomIds :
                LET after == transferStudentAfter(t, id, to, cid, NoReason) IN
                \A i \in 1..Len(students) :
                    after[i].schoolId # students[i].schoolId
                        => /\ t = Superadmin
                           /\ i = id
                           /\ after[i].schoolId = to
                           /\ transferStudentResult(t, id, to, cid, NoReason)
                                 = NoError

\* C28: a student's schoolId changes only as the effect of a successful
\* transferStudent, and only when the caller is a superadmin; createStudent
\* sets it to the effective school and leaves the other students alone;
\* updateStudent and deleteStudent never change it.
C28_SchoolChangesByTransferOnly ==
    /\ []C28_Calls
    /\ [][\A i \in 1..Len(students) :
             students'[i].schoolId # students[i].schoolId
                 => last' = Res("transferStudent", NoError)]_vars

\* a transfer has just moved a student to the other school
C28_Witness ==
    /\ last = Res("transferStudent", NoError)
    /\ \E i \in 1..Len(students) :
          LET h == students[i].transferHistory IN
          /\ Len(h) = 1
          /\ h[1].fromSchool # h[1].toSchool
          /\ students[i].schoolId = h[1].toSchool

\* what deleteStudent does to the students
C29_Calls ==
    \A t \in AllTokens, id \in 1..Len(students) :
        LET after == deleteStudentAfter(t, id) IN
        IF deleteStudentResult(t, id) = NoError
        THEN /\ students[id].isActive
             /\ after = [students EXCEPT ![id] =
                            [@ EXCEPT !.isActive = FALSE, !.classroomId = NoId]]
        ELSE after = students

\* C29: deleteStudent on an active student sets isActive to false and
\* classroomId to null and changes no other student, no classroom and no
\* school; when the student held the last seat of a full classroom, a
\* createStudent into that classroom right after the delete succeeds.
C29_DeleteFreesSeat ==
    /\ []C29_Calls
    /\ [][last' = Res("deleteStudent", NoError) =>
            /\ schools' = schools
            /\ classrooms' = classrooms
            /\ \A c \in 1..Len(classrooms) :
                  ( /\ classrooms[c].isActive
                    /\ schools[classrooms[c].schoolId].isActive
                    /\ CountActiveStudents(students, c) = classrooms[c].capacity
                    /\ \E i \in 1..Len(students) :
                          /\ students[i].classroomId = c
                          /\ students'[i] # students[i] )
                  => createStudentResult(Superadmin, classrooms[c].schoolId,
                                         c, TRUE)' = NoError]_vars

\* after an unenrolment, a new student has just been enrolled into a
\* classroom, which is full again
C29_Witness ==
    /\ last = Res("createStudent", NoError)
    /\ Len(students) = 2
    /\ ~students[1].isActive
    /\ students[1].classroomId = NoId
    /\ students[2].isActive
    /\ students[2].classroomId # NoId
    /\ CountActiveStudents(students, students[2].classroomId)
          = classrooms[students[2].classroomId].capacity

UseTransfer ==
    Err("Use transferStudent to move student to a different school's classroom", 0)

\* C30: updateStudent changes classroomId only to a classroom that exists, is
\* active, belongs to the student's school and has fewer active students than
\* its capacity; for a caller with access to the student, an active classroom
\* of another school is rejected with the message that points to
\* transferStudent; a rejected update leaves the students unchanged.
C30_UpdateTargetClassroom ==
    \A t \in Tokens, id \in 1..Len(students), cid \in ClassroomIds \cup {Undef},
       a \in Flags :
        LET r == updateStudentResult(t, id, cid, a)
            after == updateStudentAfter(t, id, cid, a)
            new == after[id].classroomId
        IN
        /\ (new # students[id].classroomId /\ new # NoId) =>
              /\ new = cid
              /\ Exists(classrooms, new)
              /\ classrooms[new].isActive
              /\ classrooms[new].schoolId = students[id].schoolId
              /\ CountActiveStudents(students, new) < classrooms[new].capacity
        /\ ( /\ Exists(classrooms, cid)
             /\ classrooms[cid].schoolId # students[id].schoolId )
           => /\ r # NoError
              /\ ( /\ classrooms[cid].isActive
                   /\ Student_checkSchoolAccess(t, students[id].schoolId) = NoError )
                 => r = UseTransfer
        /\ r # NoError => after = students

\* an update has just been refused with the message that points to
\* transferStudent
C30_Witness ==
    /\ last.op = "updateStudent"
    /\ last.error = UseTransfer.error
    /\ \E i \in 1..Len(students) : students[i].isActive

\* ids one past the stored ones: they name no school / classroom
SchoolIdsTried == 0..(MaxSchools + 1)
ClassroomIdsTried == 0..(MaxClassrooms + 1)

Gone(coll, id) == ~Exists(coll, id) \/ ~coll[id].isActive

\* C31: createClassroom and createStudent are rejected when the effective
\* school is missing or inactive, createStudent when the given classroom is
\* missing or inactive, and transferStudent when toSchoolId or toClassroomId
\* names a missing or inactive school or classroom; nothing is created or
\* changed by these calls.
C31_NoInactiveOrMissingTarget ==
    \A t \in ScopeActors \ {NoToken}, sid \in SchoolIdsTried :
        LET eff == IF t = Superadmin THEN sid ELSE t.schoolId IN
        /\ Gone(schools, eff) =>
              /\ \A n \in ClassroomNames :
                    /\ createClassroomResult(t, sid, n, 1, NoYear) # NoError
                    /\ createClassroomAfter(t, sid, n, 1, NoYear) = classrooms
              /\ \A cid \in ClassroomIdsTried :
                    /\ createStudentResult(t, sid, cid, TRUE) # NoError
                    /\ createStudentAfter(t, sid, cid, TRUE) = students
        /\ \A cid \in ClassroomIdsTried :
              /\ (cid # NoId /\ Gone(classrooms, cid)) =>
                    /\ createStudentResult(t, sid, cid, TRUE) # NoError
                    /\ createStudentAfter(t, sid, cid, TRUE) = students
              /\ ( \/ sid # NoId /\ Gone(schools, sid)
                   \/ cid # NoId /\ Gone(classrooms, cid) ) =>
                    \A id \in 1..Len(students) :
                        /\ transferStudentResult(t, id, sid, cid, NoReason) # NoError
                        /\ transferStudentAfter(t, id, sid, cid, NoReason) = students

\* an enrolment into an inactive classroom of an active school has just been
\* refused, while another student is enrolled
C31_Witness ==
    /\ last.op = "createStudent"
    /\ last.error = "Cannot enroll student in an inactive classroom"
    /\ \E i \in 1..Len(students) : students[i].isActive
    /\ \E s \in 1..Len(schools) : ~schools[s].isActive

\* C32: after a classroom has been soft-deleted, createClassroom with its
\* name, schoolId and academicYear succeeds (no active classroom of the
\* school having that name) and stores the new classroom.
C32_NameFreeAfterDelete ==
    \A sid \in 1..MaxSchools, n \in ClassroomNamesTried, y \in AcademicYears :
        ( /\ \E i \in 1..Len(classrooms) :
                /\ ~classrooms[i].isActive
                /\ classrooms[i].schoolId = sid
                /\ classrooms[i].name = n
                /\ classrooms[i].academicYear = y
          /\ \A i \in 1..Len(classrooms) :
                (classrooms[i].isActive /\ classrooms[i].schoolId = sid)
                    => ~SameNameIgnoringCase(classrooms[i].name, n) )
        => /\ createClassroomResult(Superadmin, sid, n, 1, y) = NoError
           /\ Len(createClassroomAfter(Superadmin, sid, n, 1, y))
                 = Len(classrooms) + 1

\* C33: in every state reached by createClassroom, updateClassroom and
\* deleteClassroom calls, no two active classrooms of the same school have
\* the same academicYear and names that are equal up to letter case.
C33_ActiveClassroomNamesDistinct ==
    \A i, j \in 1..Len(classrooms) :
        ( /\ i # j
          /\ classrooms[i].isActive /\ classrooms[j].isActive
          /\ classrooms[i].schoolId = classrooms[j].schoolId
          /\ classrooms[i].academicYear = classrooms[j].academicYear )
        => ~SameNameIgnoringCase(classrooms[i].name, classrooms[j].name)

CapacitiesOutOfRange == {MinCapacity - 1, MaxCapacity + 1}

\* C34: every stored classroom has a capacity within 1..500, and a
\* createClassroom or updateClassroom that supplies a capacity outside that
\* range returns a validation error result and creates or changes nothing.
C34_CapacityInRange ==
    /\ \A i \in 1..Len(classrooms) : ValidCapacity(classrooms[i].capacity)
    /\ \A c \in CapacitiesOutOfRange :
          /\ \A sid \in 1..MaxSchools, n \in ClassroomNames :
                /\ createClassroomResult(Superadmin, sid, n, c, NoYear)
                      = Err("validation errors", 0)
                /\ createClassroomAfter(Superadmin, sid, n, c, NoYear) = classrooms
          /\ \A id \in 1..Len(classrooms) :
                /\ updateClassroomResult(Superadmin, id, Unset, c, Unset)
                      = Err("validation errors", 0)
                /\ updateClassroomAfter(Superadmin, id, Unset, c, Unset, Undef)
                      = classrooms

SchoolIdRequired == Err("School ID is required for superadmin", 0)

\* C35: createClassroom and createStudent called by a superadmin without a
\* schoolId return the 'School ID is required for superadmin' error, whatever
\* the other fields, and create nothing; called by a school_admin without a
\* schoolId they create the entity in the admin's own school, when that
\* school is active.
C35_SchoolIdRequiredForSuperadmin ==
    /\ \A n \in ClassroomNames \cup {NoName}, c \in {0, 1} :
          /\ createClassroomResult(Superadmin, NoId, n, c, NoYear)
                = SchoolIdRequired
          /\ createClassroomAfter(Superadmin, NoId, n, c, NoYear) = classrooms
    /\ \A cid \in ClassroomIds, v \in BOOLEAN :
          /\ createStudentResult(Superadmin, NoId, cid, v) = SchoolIdRequired
          /\ createStudentAfter(Superadmin, NoId, cid, v) = students
    /\ \A s \in {i \in 1..Len(schools) : schools[i].isActive} :
          /\ \A n \in ClassroomNames :
                LET after == createClassroomAfter(SchoolAdmin(s), NoId, n, 1, NoYear)
                IN
                (\A i \in 1..Len(classrooms) :
                    classrooms[i].schoolId = s => classrooms[i].name # n)
                => /\ createClassroomResult(SchoolAdmin(s), NoId, n, 1, NoYear)
                         = NoError
                   /\ Len(after) = Len(classrooms) + 1
                   /\ after[Len(after)].schoolId = s
          /\ LET after == createStudentAfter(SchoolAdmin(s), NoId, NoId, TRUE) IN
             /\ createStudentResult(SchoolAdmin(s), NoId, NoId, TRUE) = NoError
             /\ Len(after) = Len(students) + 1
             /\ after[Len(after)].schoolId = s

\* a superadmin's enrolment without a schoolId has just been refused, and
\* both schools have a classroom
C35_Witness ==
    /\ last = Res("createStudent", SchoolIdRequired)
    /\ \A s \in 1..Len(schools) : ClassroomsOfSchool(s, 1) # {}

----------------------------------------------------------------------------
(* Registration and login *)

Usernames == {"ann", "bob"}
Emails == {"ann@school", "bob@school"}
Passwords == {"secret", "other"}
RolesTried == {"superadmin", "school_admin", "teacher"}

\* tokens of the stored users, and a request without one
LongTokens == {genLongToken(i, users[i]) : i \in 1..Len(users)}
                \cup {NoLongToken}

NextUsers ==
    \/ \E u \in Usernames, e \in Emails \cup {Unset}, p \in Passwords,
          r \in RolesTried, sid \in SchoolIdsTried :
          createUser(u, e, p, r, sid)
    \/ \E e \in Emails \cup {Unset}, p \in Passwords : login(e, p)
    \/ \E t \in LongTokens, u \in Usernames \cup {Unset},
          e \in Emails \cup {Unset}, p \in Passwords \cup {Unset} :
          updateUser(t, u, e, p)
    \/ \E sid \in 1..MaxSchools : deleteSchool(Superadmin, sid)

SpecUsers == InitSchoolsOnly /\ [][NextUsers]_vars

\* C36: every stored school_admin has the schoolId of an existing school and
\* every stored superadmin has none; createUser for a school_admin without a
\* schoolId or with an unknown one is rejected and stores nothing; the token
\* returned by createUser and by login carries the stored user's role and
\* schoolId.
C36_TenancyClaimsWellFormed ==
    /\ \A i \in 1..Len(users) :
          /\ users[i].role \in {"superadmin", "school_admin"}
          /\ users[i].role = "school_admin" => Exists(schools, users[i].schoolId)
          /\ users[i].role = "superadmin" => users[i].schoolId = NoId
    /\ \A u \in Usernames, e \in Emails, p \in Passwords,
          r \in RolesTried, sid \in SchoolIdsTried :
          LET res == createUserResult(u, e, p, r, sid)
              after == createUserAfter(u, e, p, r, sid)
              token == createUserToken(u, e, p, r, sid)
          IN
          /\ (r = "school_admin" /\ ~Exists(schools, sid))
                => res # NoError /\ after = users
          /\ res = NoError
                => /\ Len(after) = Len(users) + 1
                   /\ token.userId = Len(after)
                   /\ token.role = after[Len(after)].role
                   /\ token.schoolId = after[Len(after)].schoolId
    /\ \A e \in Emails, p \in Passwords :
          loginResult(e, p) = NoError
          => \E i \in 1..Len(users) :
                /\ users[i].email = e
                /\ loginToken(e, p).userId = i
                /\ loginToken(e, p).role = users[i].role
                /\ loginToken(e, p).schoolId = users[i].schoolId

\* a school admin and a superadmin are stored and one of them has logged in
C36_Witness ==
    /\ last = Res("login", NoError)
    /\ \E i, j \in 1..Len(users) :
          /\ users[i].role = "school_admin"
          /\ users[j].role = "superadmin"

----------------------------------------------------------------------------
(* Listing: three schools, two classrooms and up to two students *)

PagedSchools == 3

InitPages ==
    /\ schools = <<[name |-> "lincoln", isActive |-> TRUE],
                   [name |-> "kennedy", isActive |-> TRUE],
                   [name |-> "hill(n)", isActive |-> TRUE]>>
    /\ classrooms = <<Room(1, "room", 2), Room(2, "lab", 1)>>
    /\ students = <<>>
    /\ last = Res("init", NoError)
    /\ pending = <<>>
    /\ users = <<>>
    /\ req = NoRequest

NextPages ==
    \/ \E id \in 1..PagedSchools, a \in Flags :
          updateSchool(Superadmin, id, Unset, a)
    \/ \E t \in ScopeActors \ {NoToken}, sid \in SchoolIds,
          cid \in ClassroomIds :
          createStudent(t, sid, cid, TRUE)
    \/ \E t \in ScopeActors \ {NoToken}, id \in 1..MaxStudents :
          deleteStudent(t, id)
    \/ \E t \in ScopeActors, a \in Flags : getSchools(t, a)
    \/ \E t \in ScopeActors \ {NoToken}, sid \in SchoolIds, a \in Flags :
          getClassrooms(t, sid, a)
    \/ \E t \in ScopeActors \ {NoToken}, sid \in SchoolIds,
          cid \in ClassroomIds, a \in Flags :
          getStudents(t, sid, cid, a)

SpecPages == InitPages /\ [][NextPages]_vars

\* page and limit parameters: absent, zero, negative, not a number, a
\* fraction, a number followed by text, and numbers up to past the cap
PageInputs ==
    {Absent, <<"0">>, <<"-", "1">>, <<"a", "b", "c">>, <<"1">>, <<"2">>,
     <<"3">>, <<"2", ".", "7">>, <<"2", "x">>, <<"1", "0", "0">>,
     <<"1", "0", "1">>}

\* the inputs that are absent or are not a positive number
NotPositiveInputs == {Absent, <<"0">>, <<"-", "1">>, <<"a", "b", "c">>}

\* the pages and limits the lists are asked with
PagesTried == {Absent, <<"-", "1">>, <<"1">>, <<"2">>, <<"3">>}
LimitsTried == {Absent, <<"0">>, <<"1">>, <<"2">>, <<"2", ".", "7">>}

\* the lists a request can ask for, as the ids found
FoundLists ==
    {getSchoolsFound(Superadmin, a) : a \in Flags}
    \cup {getClassroomsFound(t, sid, a) :
            t \in ScopeActors \ {NoToken}, sid \in SchoolIds, a \in Flags}
    \cup {getStudentsFound(t, sid, NoId, a) :
            t \in ScopeActors \ {NoToken}, sid \in SchoolIds, a \in Flags}

\* page at least 1, limit within 1..100, skip = (page-1)*limit, at most limit
\* items, and pages the least number of pages of limit items that hold total
PageArithmetic ==
    /\ \A x \in PageInputs, y \in PageInputs :
          /\ pageNum(x) >= 1
          /\ limitNum(y) \in 1..100
          /\ skip(x, y) = (pageNum(x) - 1) * limitNum(y)
    /\ \A found \in FoundLists, page \in PagesTried, limit \in LimitsTried :
        LET items == Paginate(found, page, limit)
            p == Pagination(found, page, limit)
        IN
        /\ p.page >= 1
        /\ p.limit \in 1..100
        /\ skip(page, limit) = (p.page - 1) * p.limit
        /\ Len(items) <= p.limit
        /\ Len(items) = Min(p.limit, Max(0, p.total - (p.page - 1) * p.limit))
        /\ \A k \in 1..Len(items) :
              /\ items[k] \in found
              /\ Cardinality({j \in found : j > items[k]})
                    = (p.page - 1) * p.limit + k - 1
        /\ p.total = Cardinality(found)
        /\ p.pages * p.limit >= p.total
        /\ (p.pages - 1) * p.limit < p.total \/ p.pages = 0

C38_ClassroomSchoolFixed ==
    [][\A i \in 1..Len(classrooms) :
          /\ i <= Len(classrooms')
          /\ classrooms'[i].schoolId = classrooms[i].schoolId]_vars

\* a classroom has just been updated: its capacity or its isActive differs
\* from the stored fixture
C38_Witness ==
    /\ last = Res("updateClassroom", NoError)
    /\ \E i \in 1..Len(classrooms) :
          ~classrooms[i].isActive \/ classrooms[i].capacity = 2

----------------------------------------------------------------------------
(* Middleware stack: a request arrives and one of the middlewares decides *)

Decodeds == {NoToken, Superadmin, Teacher, SchoolAdmin(NoId)}
                \cup {SchoolAdmin(s) : s \in 1..MaxSchools}
BodyTokens == {NoToken, Superadmin}
RequiredRoles == {<<>>, <<"superadmin">>, <<"school_admin">>,
                  <<"superadmin", "school_admin">>}

Requests ==
    {Request(d, b, p, q, y, roles) :
        d \in Decodeds, b \in BodyTokens,
        p \in SchoolIds, q \in SchoolIds, y \in SchoolIds,
        roles \in RequiredRoles}

NextMws ==
    \/ \E r \in Requests : request(r)
    \/ __role
    \/ __schoolAccess

SpecMws == InitEmpty /\ [][NextMws]_vars

\* the schoolIds a request carries
SchoolIdsOf(r) ==
    {r.params.schoolId, r.body.schoolId, r.query.schoolId} \ {NoId}

\* C39: when the school access middleware passes a school_admin's request
\* on, every schoolId of its params, body and query is the token's schoolId
\* (a missing one is injected into the body); the request of an actor whose
\* role is neither superadmin nor school_admin is not passed on.
C39_SchoolAccessMiddleware ==
    (last.op = "__schoolAccess" /\ Decoded(req) # NoToken)
    => /\ (Decoded(req).role = "school_admin" /\ last.error = Ok)
            => /\ SchoolIdsOf(req) \subseteq {Decoded(req).schoolId}
               /\ Decoded(req).schoolId # NoId => SchoolIdsOf(req) # {}
       /\ Decoded(req).role \notin {"superadmin", "school_admin"}
            => last.error # Ok

\* the decision of the role check, from the actor's role and the roles only
RoleDecision(authenticated, role, roles) ==
    IF ~authenticated THEN 401
    ELSE IF roles = <<>> THEN 0
    ELSE IF \A i \in 1..Len(roles) : roles[i] # role THEN 403
    ELSE 0

\* C40: the role check answers 401 when there is no decoded actor, passes
\* any authenticated actor when the list of required roles is empty, answers
\* 403 when the actor's role is not in a non-empty list and passes otherwise;
\* the decision depends on the actor's role and the required roles only.
C40_RoleCheck ==
    /\ \A r \in Requests :
          /\ __roleResult(r).code
                = RoleDecision(Decoded(r) # NoToken, Decoded(r).role, r.roles)
          /\ __roleResult(r).error = Ok <=> __roleResult(r).code = 0
    /\ last.op = "__role"
          => /\ last.code = RoleDecision(Decoded(req) # NoToken,
                                         Decoded(req).role, req.roles)
             /\ last.error = Ok <=> last.code = 0

\* a school admin has just been refused by a route for superadmins
C40_Witness ==
    /\ last = Res("__role", RoleDenied)
    /\ Decoded(req).role = "school_admin"
    /\ req.roles = <<"superadmin">>

====
